---- MODULE Spec2Model ----
(***************************************************************************)
(* The indexing and discovery core of leaper: the filesystem indexer        *)
(* (fs::index, FSNode::add_db and the kind queries), the app/icon pipeline  *)
(* (AppsFinder::search, AppsFinder::search_paths, the desktop-entry         *)
(* ingestion task), the database-side events of the schema and the stop     *)
(* channel probed by check_stop!.                                           *)
(*                                                                         *)
(* A path is the sequence of its components: <<"s", "a", "f.desktop">> is   *)
(* /s/a/f.desktop.  A record id the engine generates is named by the path   *)
(* of the row and the task whose query created it, which keeps ids unique.  *)
(***************************************************************************)
EXTENDS Integers, Sequences, FiniteSets, TLC

VARIABLES
    fs_node,        \* rows of table fs_node: [id, path]
    file,           \* rows of table file: [id, stem, ext]
    directory,      \* ids of the rows of table directory
    symlink,        \* ids of the rows of table symlink
    is_file,        \* edges fs_node -> file
    is_dir,         \* edges fs_node -> directory
    is_symlink,     \* edges fs_node -> symlink
    is_symlink_of,  \* edges symlink -> fs_node
    is_parent_of,   \* edges fs_node -> fs_node
    icon,           \* rows of table icon: [id, name, path, svg, xpm, dims]
    is_icon,        \* edges file -> icon
    app,            \* rows of table app: [id, path, name, exec, icon_name]
    is_app,         \* edges file -> app
    has_icon,       \* edges app -> icon
    live,           \* LiveSearchAppsQuery: [open, queue of Create notifications]
    view,           \* the live_apps subscription and its two live queries
    daemon,         \* the daemon: its flag, search_apps requests and jobs
    ui,             \* the launcher: [apps, msgs, exited]
    stop,           \* the stop channel: [len, sent, closed]
    pc,             \* every task's position
    walk,           \* index task -> entries its walker has still to yield
    stack,          \* index task -> the add_db calls it is inside of
    paths,          \* search_paths task -> the roots it was called with
    entry,          \* the notification the ingestion task is handling
    result,         \* task -> what it resolved with
    joinset,        \* JoinSet owner -> the results of its tasks, as they end
    hist            \* observations of the run
                    \* (what the claims speak about and the code does not keep)

vars == <<fs_node, file, directory, symlink, is_file, is_dir, is_symlink,
          is_symlink_of, is_parent_of, icon, is_icon, app, is_app, has_icon,
          live, view, daemon, ui, stop, pc, walk, stack, entry, paths,
          result, joinset,
          hist>>

resolved == <<result, joinset>>

dbvars == <<fs_node, file, directory, symlink, is_file, is_dir, is_symlink,
            is_symlink_of, is_parent_of, icon, is_icon, app, is_app, has_icon,
            live, view, daemon>>

None == "None"
NoId == << >>

(***************************************************************************)
(* The filesystem the crawls run on.                                        *)
(***************************************************************************)

\* std::path::Path::read_link of the symlinks; a symlink outside the domain
\* is one whose target cannot be read.
LinkTarget ==
    ( <<"x", "l.desktop">> :> <<"t", "f.desktop">> ) @@
    ( <<"y", "m.desktop">> :> <<"t", "f.desktop">> ) @@
    ( <<"y", "d.desktop">> :> <<"gone">> ) @@
    ( <<"y", "k.desktop">> :> <<"t", "f.desktop">> ) @@
    ( <<"m", "64x32", "l.png">> :> <<"m", "64x32", "u.PNG">> ) @@
    ( <<"c", "a.desktop">> :> <<"c", "b.desktop">> ) @@
    ( <<"c", "b.desktop">> :> <<"c", "a.desktop">> ) @@
    ( <<"c", "o.desktop">> :> <<"c", "o.desktop">> )

Symlinks == DOMAIN LinkTarget \cup { <<"x", "u.desktop">> }

Directories ==
    { << >>, <<"s">>, <<"s", "a">>, <<"h">>, <<"x">>, <<"y">>, <<"t">>,
      <<"g">>, <<"w">>, <<"v">>, <<"v", "a">>, <<"c">>, <<"e">>, <<"u">>,
      <<"m">>, <<"m", "64x32">>, <<"m", "64x32", "48x48">> }

RegularFiles ==
    { <<"s", "a", "f.desktop">>, <<"t", "f.desktop">>,
      <<"h", "n.png">>, <<"h", "b.desktop">>, <<"h", "c.desktop">>,
      <<"h", "e.desktop">>,
      <<"g", "n-symbolic.png">>, <<"g", "q.desktop">>,
      <<"w", "j.desktop">>, <<"w", "o.desktop">>,
      <<"v", "a", "i.desktop">>,
      <<"v", "a", "p.png">>, <<"v", "a", "r.png">>, <<"v", "a", "z.PNG">>,
      <<"m", "64x32", "j.png">>, <<"m", "64x32", "u.PNG">>,
      <<"m", "64x32", "48x48", "k.png">>, <<"e", "q.desktop">>,
      <<"u", "z.desktop">>, <<"u", "b.desktop">> }

\* The entries for which the walker yields an Err: a directory that cannot
\* be read.
WalkErrors == { <<"v", "a", "locked">> }

\* Path::is_symlink
IsSymlink(p) == p \in Symlinks

RECURSIVE Resolve(_, _)
\* The path a probe that follows symlinks looks at (fuel bounds a cycle).
Resolve(p, fuel) ==
    IF p \in DOMAIN LinkTarget /\ fuel > 0
    THEN Resolve(LinkTarget[p], fuel - 1)
    ELSE p

\* Path::is_dir and Path::is_file follow symlinks
IsDir(p) == Resolve(p, Cardinality(Symlinks)) \in Directories
IsFile(p) == Resolve(p, Cardinality(Symlinks)) \in RegularFiles

\* Path::file_name
FileName(p) == IF Len(p) = 0 THEN "[ERROR]" ELSE p[Len(p)]

\* Path::extension of the file names of the filesystem
Extension(p) ==
    CASE FileName(p) \in {"f.desktop", "b.desktop", "c.desktop", "e.desktop",
                          "q.desktop", "j.desktop", "o.desktop", "i.desktop",
                          "l.desktop", "m.desktop", "d.desktop", "u.desktop",
                          "k.desktop", "a.desktop", "z.desktop"} -> "desktop"
      [] FileName(p) \in {"n.png", "n-symbolic.png", "p.png", "r.png",
                          "j.png", "k.png", "l.png"} -> "png"
      [] FileName(p) \in {"z.PNG", "u.PNG"} -> "PNG"
      [] OTHER -> None

\* Path::file_stem of the file names of the filesystem
FileStem(p) ==
    CASE FileName(p) = "f.desktop" -> "f"
      [] FileName(p) = "b.desktop" -> "b"
      [] FileName(p) = "c.desktop" -> "c"
      [] FileName(p) = "e.desktop" -> "e"
      [] FileName(p) = "l.desktop" -> "l"
      [] FileName(p) = "m.desktop" -> "m"
      [] FileName(p) = "d.desktop" -> "d"
      [] FileName(p) = "u.desktop" -> "u"
      [] FileName(p) = "k.desktop" -> "k"
      [] FileName(p) = "n.png" -> "n"
      [] FileName(p) = "n-symbolic.png" -> "n-symbolic"
      [] FileName(p) = "q.desktop" -> "q"
      [] FileName(p) = "p.png" -> "p"
      [] FileName(p) = "r.png" -> "r"
      [] FileName(p) = "z.PNG" -> "z"
      [] FileName(p) = "j.desktop" -> "j"
      [] FileName(p) = "o.desktop" -> "o"
      [] FileName(p) = "i.desktop" -> "i"
      [] FileName(p) = "a.desktop" -> "a"
      [] FileName(p) = "z.desktop" -> "z"
      [] FileName(p) = "j.png" -> "j"
      [] FileName(p) = "k.png" -> "k"
      [] FileName(p) = "l.png" -> "l"
      [] FileName(p) = "u.PNG" -> "u"
      [] OTHER -> FileName(p)

\* Path::parent
HasParent(p) == Len(p) > 0
Parent(p) == SubSeq(p, 1, Len(p) - 1)


(***************************************************************************)
(* Desktop entries (freedesktop_desktop_entry::DesktopEntry::from_path).    *)
(***************************************************************************)

\* What the fields of the .desktop files hold; exec is the value of the
\* Exec key, character by character (/e/q.desktop has the line `Exec=`).
\* No Exec value holds a quote, an escape or a field code (%f, %u, ...).
DesktopEntry(p) ==
    CASE p = <<"s", "a", "f.desktop">> ->
            [full_name |-> "Foo", has_exec |-> TRUE,
             exec |-> <<"f", "o", "o">>,
             icon |-> None]
      [] p = <<"t", "f.desktop">> ->
            [full_name |-> None, has_exec |-> TRUE,
             exec |-> <<"f", "o", "o", " ", "-", "x">>,
             icon |-> None]
      [] p = <<"h", "b.desktop">> ->
            [full_name |-> "Bar", has_exec |-> TRUE,
             exec |-> <<"b", "a", "r">>,
             icon |-> "n"]
      [] p = <<"h", "c.desktop">> ->
            [full_name |-> "Baz", has_exec |-> TRUE,
             exec |-> <<"b", "a", "z">>,
             icon |-> "n"]
      [] p = <<"g", "q.desktop">> ->
            [full_name |-> "Qux", has_exec |-> TRUE,
             exec |-> <<"q", "u", "x">>,
             icon |-> "n"]
      [] p = <<"w", "j.desktop">> ->
            [full_name |-> "Jot", has_exec |-> FALSE,
             exec |-> << >>,
             icon |-> None]
      [] p = <<"w", "o.desktop">> ->
            [full_name |-> "Oak", has_exec |-> TRUE,
             exec |-> <<"o", "a", "k">>,
             icon |-> None]
      [] p = <<"v", "a", "i.desktop">> ->
            [full_name |-> "Ivy", has_exec |-> TRUE,
             exec |-> <<"i", "v", "y">>,
             icon |-> None]
      [] p = <<"h", "e.desktop">> ->
            [full_name |-> "Bar", has_exec |-> TRUE,
             exec |-> <<"b", "a", "r", " ", " ", "-", "e">>,
             icon |-> None]
      [] p = <<"u", "z.desktop">> ->
            [full_name |-> "Baz", has_exec |-> TRUE,
             exec |-> <<"b", "a", "z">>,
             icon |-> None]
      [] p = <<"u", "b.desktop">> ->
            [full_name |-> "Bar", has_exec |-> TRUE,
             exec |-> <<"b", "a", "r">>,
             icon |-> None]
      [] p = <<"e", "q.desktop">> ->
            [full_name |-> "Nil", has_exec |-> TRUE, exec |-> << >>,
             icon |-> None]
      [] OTHER -> [full_name |-> None, has_exec |-> FALSE,
             exec |-> << >>,
                   icon |-> None]

\* The place of an app name in the ascending order of ORDER BY name ASC
NameRank(name) ==
    CASE name = "Bar" -> 1
      [] name = "Baz" -> 2
      [] name = "Foo" -> 3
      [] name = "Ivy" -> 4
      [] name = "Jot" -> 5
      [] name = "Oak" -> 6
      [] name = "Qux" -> 7
      [] OTHER -> 8

(***************************************************************************)
(* Tasks.                                                                   *)
(***************************************************************************)

\* The tasks AppsFinder::search spawns: the ingestion task and the two
\* search_paths tasks.
IngestTask == "ingest"
SearchPathsTasks == {"sp_apps", "sp_icons"}

\* The fs::index tasks: one per search root of a search_paths task, and the
\* index calls made without a stop receiver.
PipelineIndexTasks ==
    {"apps_s", "apps_sa", "icons_sa", "apps_h", "icons_h", "apps_g", "icons_g",
     "apps_w", "icons_w", "apps_va", "icons_v", "icons_va", "apps_e",
     "icons_e", "apps_u"}
PlainIndexTasks ==
    {"idx_x", "idx_y", "idx_m", "idx_n", "idx_c", "idx_s",
     "r1_apps", "r2_apps"}
IndexTasks == PipelineIndexTasks \cup PlainIndexTasks
SearchTask == "search"
Tasks == {SearchTask, IngestTask} \cup SearchPathsTasks \cup IndexTasks

\* The JoinSets: `tasks` of search and `index_tasks` of each search_paths.
JoinSets == {SearchTask} \cup SearchPathsTasks

\* search.rs:131-151: the exts each search_paths call passes
DesktopExts == {"desktop"}
ImageExts ==
    {"png", "jpg", "jpeg", "gif", "webp", "pbm", "pam", "ppm", "pgm", "tiff",
     "tif", "tga", "dds", "bmp", "ico", "hdr", "exr", "ff", "avif", "qoi",
     "pcx", "svg", "xpm"}

\* The arguments of each fs::index call.
IndexArgs(t) ==
    CASE t = "apps_s"  -> [root |-> <<"s">>, exts |-> DesktopExts,
                           parents |-> FALSE, stop |-> TRUE, of |-> "sp_apps"]
      [] t = "apps_sa" -> [root |-> <<"s", "a">>, exts |-> DesktopExts,
                           parents |-> FALSE, stop |-> TRUE, of |-> "sp_apps"]
      [] t = "icons_sa" -> [root |-> <<"s", "a">>, exts |-> ImageExts,
                           parents |-> FALSE, stop |-> TRUE, of |-> "sp_icons"]
      [] t = "apps_h"  -> [root |-> <<"h">>, exts |-> DesktopExts,
                           parents |-> FALSE, stop |-> TRUE, of |-> "sp_apps"]
      [] t = "icons_h" -> [root |-> <<"h">>, exts |-> ImageExts,
                           parents |-> FALSE, stop |-> TRUE, of |-> "sp_icons"]
      [] t = "apps_g"  -> [root |-> <<"g">>, exts |-> DesktopExts,
                           parents |-> FALSE, stop |-> TRUE, of |-> "sp_apps"]
      [] t = "icons_g" -> [root |-> <<"g">>, exts |-> ImageExts,
                           parents |-> FALSE, stop |-> TRUE, of |-> "sp_icons"]
      [] t = "apps_w"  -> [root |-> <<"w">>, exts |-> DesktopExts,
                           parents |-> FALSE, stop |-> TRUE, of |-> "sp_apps"]
      [] t = "icons_w" -> [root |-> <<"w">>, exts |-> ImageExts,
                           parents |-> FALSE, stop |-> TRUE, of |-> "sp_icons"]
      [] t = "apps_va" -> [root |-> <<"v", "a">>, exts |-> DesktopExts,
                           parents |-> FALSE, stop |-> TRUE, of |-> "sp_apps"]
      [] t = "icons_v" -> [root |-> <<"v">>, exts |-> ImageExts,
                           parents |-> FALSE, stop |-> TRUE, of |-> "sp_icons"]
      [] t = "icons_va" -> [root |-> <<"v", "a">>, exts |-> ImageExts,
                           parents |-> FALSE, stop |-> TRUE, of |-> "sp_icons"]
      [] t = "apps_e"  -> [root |-> <<"e">>, exts |-> DesktopExts,
                           parents |-> FALSE, stop |-> TRUE, of |-> "sp_apps"]
      [] t = "icons_e" -> [root |-> <<"e">>, exts |-> ImageExts,
                           parents |-> FALSE, stop |-> TRUE, of |-> "sp_icons"]
      [] t = "apps_u"  -> [root |-> <<"u">>, exts |-> DesktopExts,
                           parents |-> FALSE, stop |-> TRUE, of |-> "sp_apps"]
      [] t = "idx_x"   -> [root |-> <<"x">>, exts |-> DesktopExts,
                           parents |-> TRUE, stop |-> FALSE, of |-> None]
      [] t = "idx_y"   -> [root |-> <<"y">>, exts |-> DesktopExts,
                           parents |-> FALSE, stop |-> FALSE, of |-> None]
      [] t = "idx_m"   -> [root |-> <<"m">>, exts |-> ImageExts,
                           parents |-> TRUE, stop |-> FALSE, of |-> None]
      [] t = "idx_n"   -> [root |-> <<"m">>, exts |-> ImageExts,
                           parents |-> TRUE, stop |-> FALSE, of |-> None]
      [] t = "idx_c"   -> [root |-> <<"c">>, exts |-> DesktopExts,
                           parents |-> TRUE, stop |-> FALSE, of |-> None]
      [] t = "idx_s"   -> [root |-> <<"s", "a">>, exts |-> DesktopExts,
                           parents |-> FALSE, stop |-> FALSE, of |-> None]
      [] t \in {"r1_apps", "r2_apps"} ->
                          [root |-> daemon.root, exts |-> DesktopExts,
                           parents |-> FALSE, stop |-> FALSE, of |-> None]

\* AsyncVfsPath::walk_dir: the entries below a root, in the order the walker
\* yields them.
WalkDir(root) ==
    CASE root = <<"s">> -> << <<"s", "a">>, <<"s", "a", "f.desktop">> >>
      [] root = <<"s", "a">> -> << <<"s", "a", "f.desktop">> >>
      [] root = <<"h">> -> << <<"h", "n.png">>, <<"h", "b.desktop">>,
                              <<"h", "c.desktop">>, <<"h", "e.desktop">> >>
      [] root = <<"g">> -> << <<"g", "n-symbolic.png">>, <<"g", "q.desktop">> >>
      [] root = <<"w">> -> << <<"w", "j.desktop">>, <<"w", "o.desktop">> >>
      [] root = <<"v">> -> << <<"v", "a">>, <<"v", "a", "locked">>,
                              <<"v", "a", "i.desktop">>,
                              <<"v", "a", "p.png">>, <<"v", "a", "r.png">>,
                              <<"v", "a", "z.PNG">> >>
      [] root = <<"v", "a">> -> << <<"v", "a", "locked">>,
                                   <<"v", "a", "i.desktop">>,
                                   <<"v", "a", "p.png">>, <<"v", "a", "r.png">>,
                                   <<"v", "a", "z.PNG">> >>
      [] root = <<"x">> -> << <<"x", "l.desktop">>, <<"x", "u.desktop">> >>
      [] root = <<"y">> -> << <<"y", "m.desktop">>, <<"y", "d.desktop">>,
                              <<"y", "k.desktop">> >>
      [] root = <<"m">> -> << <<"m", "64x32">>, <<"m", "64x32", "j.png">>,
                              <<"m", "64x32", "l.png">>,
                              <<"m", "64x32", "u.PNG">>,
                              <<"m", "64x32", "48x48">>,
                              <<"m", "64x32", "48x48", "k.png">> >>
      [] root = <<"e">> -> << <<"e", "q.desktop">> >>
      [] root = <<"u">> -> << <<"u", "z.desktop">>, <<"u", "b.desktop">> >>
      [] root = <<"c">> -> << <<"c", "a.desktop">>, <<"c", "b.desktop">>,
                              <<"c", "o.desktop">> >>
      [] OTHER -> << >>

\* search.rs:196-210: the pre_filter closure; index drops the entry on
\* Some(false) and lets it through on None
pre_filter(exts, path) ==
    IF IsDir(path) THEN "Some(false)"
    ELSE IF Extension(path) = None THEN "Some(false)"
    ELSE IF Extension(path) \in exts THEN None
    ELSE "Some(false)"

\* A closure that lets no entry through
SkipEveryEntry(exts, path) == TRUE

\* fs.rs:78-92: the filter_map closure returns None, which drops the entry,
\* for an entry the walker could not read and for one pre_filter refuses
SkipEntry(exts, path) ==
    \/ path \in WalkErrors
    \/ pre_filter(exts, path) = "Some(false)"

(***************************************************************************)
(* The queries and the events of the schema.                                *)
(***************************************************************************)

\* A fresh record id of the engine.
NewId(path, t) == <<path, t>>

\* A lookup that finds no row
FindsNothing(path) == {}

\* FindNodeByPathQuery: the ids of the fs_node rows with this path
\* (SELECT VALUE id FROM ONLY fs_node WHERE path == {path} LIMIT 1 returns
\* one of them, or nothing)
FindNodeByPathQuery(path) == { n.id : n \in {m \in fs_node : m.path = path} }

\* string::split(component, 'x') of a path component, when it yields two
\* numeric parts (fs.rs:325-328), for the components of this filesystem
SplitX(c) ==
    CASE c = "64x32" -> <<64, 32>>
      [] c = "48x48" -> <<48, 48>>
      [] OTHER -> << >>

\* $dims of icon_file_added, fs.rs:321-331: of the components that split
\* into two numeric parts the first one ([0]) is taken, and both width and
\* height are its $split[0]; NONE (<< >>) when there is no such component
IconDims(path) ==
    LET splits == SelectSeq(path, LAMBDA c : SplitX(c) # << >>)
    IN  IF splits = << >> THEN << >>
        ELSE <<SplitX(splits[1])[1], SplitX(splits[1])[1]>>

\* fs.rs:334-338 of icon_file_added: the stem without the suffixes
\* -default, -symbolic, -generic, for the stems of this filesystem
IconName(stem) ==
    CASE stem = "n-symbolic" -> "n"
      [] OTHER -> stem

\* ORDER BY dims.width, dims.height, svg: a row without dims sorts first
IconKey(i) ==
    IF i.dims = << >> THEN <<0, 0, IF i.svg THEN 1 ELSE 0>>
    ELSE <<i.dims[1] + 1, i.dims[2] + 1, IF i.svg THEN 1 ELSE 0>>

KeyLeq(a, b) ==
    \/ a[1] < b[1]
    \/ a[1] = b[1] /\ a[2] < b[2]
    \/ a[1] = b[1] /\ a[2] = b[2] /\ a[3] <= b[3]

\* app_entry_added, apps.rs:18-29: the has_icon edges the event may write
\* for a new app row: one to the icon SELECT * FROM icon WHERE name ==
\* $value.icon_name ORDER BY dims.width,dims.height,svg LIMIT 1 returns
app_entry_added(icons, row) ==
    LET match == {i \in icons : row.icon_name # None /\ i.name = row.icon_name}
        first == {i \in match : \A j \in match : KeyLeq(IconKey(i), IconKey(j))}
    IN  IF first = {} THEN {{}} ELSE {{<<row.id, i.id>>} : i \in first}

\* A schema whose icon_added event relates nothing
IconAddedRelatesNothing(apps, row) == {{}}

\* icon_added, apps.rs:172-181: the has_icon edges the event may write for
\* a new icon row: one from the app SELECT * FROM ONLY app WHERE icon_name
\* == $value.name LIMIT 1 returns, none when it returns nothing
icon_added(apps, row) ==
    LET match == {a \in apps : a.icon_name = row.name}
    IN  IF match = {} THEN {{}} ELSE {{<<a.id, row.id>>} : a \in match}


(***************************************************************************)
(* FSNode::add_db.  A task is inside a stack of add_db calls (a symlink's   *)
(* target and a node's parent are indexed by a nested call); every action   *)
(* below is one query of the call on top, with the code that runs up to     *)
(* the next query.                                                          *)
(***************************************************************************)

OkId(id) == [ok |-> TRUE, id |-> id]
Failed == [ok |-> FALSE, id |-> NoId]

\* The ids that completed add_db calls have returned for a path so far.
Returned(path) == { c.id : c \in {d \in hist.calls : d.path = path} }

\* A call FSNode::add_db().path(path).parents(parents), about to run its
\* first query.
Call(path, parents) ==
    [path |-> path, parents |-> parents, pc |-> "find", id |-> NoId,
     ret |-> Failed, prior |-> Returned(path)]

Top(t) == stack[t][Len(stack[t])]

WithTop(stk, f) == [stk EXCEPT ![Len(stk)] = f]

\* The call on top awaits the nested call `child`, and goes on at `at`.
Push(stk, at, child) == Append([stk EXCEPT ![Len(stk)].pc = at], child)

\* The call on top returns `val` to its caller.
Pop(stk, val) ==
    LET rest == SubSeq(stk, 1, Len(stk) - 1)
    IN  IF rest = << >> THEN rest ELSE [rest EXCEPT ![Len(rest)].ret = val]

\* The observation of a call that returned Ok(id).
Completed(f, id, created) ==
    [path |-> f.path, prior |-> f.prior, id |-> id, created |-> created,
     parents |-> f.parents]

\* fs.rs:94-104: the filter_map closure logs a failed add_db and goes on
AfterAddDb(t, stk) == IF stk = << >> THEN "after" ELSE "add_db"

\* The call on top returns `val`.
ReturnFrom(t, val, created) ==
    /\ stack' = [stack EXCEPT ![t] = Pop(stack[t], val)]
    /\ pc' = [pc EXCEPT ![t] = AfterAddDb(t, Pop(stack[t], val))]
    /\ hist' = IF val.ok
               THEN [hist EXCEPT !.calls = @ \cup
                        {Completed(Top(t), val.id, created)}]
               ELSE IF Len(stack[t]) = 1
               THEN [hist EXCEPT !.failed = @ \cup {<<t, Top(t).path>>}]
               ELSE hist

\* How deep the add_db calls of one task nest.
MaxDepth == 6

\* A nested call is made (the cap only bounds the model: no run of the
\* specifications below reaches it)
CanNest(t) == Len(stack[t]) < MaxDepth

\* An add_db that never indexes the parent
ParentsNeverIndexed(f) == TRUE

\* fs.rs:184-186: `if parents` and `if let Some(parent) = path.parent()`
ParentsSkip(f) == ~(f.parents /\ HasParent(f.path))

\* fs.rs:184-190: after the kind of node `id` is written
ThenParents(t, id) ==
    IF ParentsSkip(Top(t))
    THEN ReturnFrom(t, OkId(id), TRUE)
    ELSE /\ CanNest(t)
         /\ stack' = [stack EXCEPT ![t] =
                Push(WithTop(@, [Top(t) EXCEPT !.id = id]), "parent",
                     Call(Parent(Top(t).path), TRUE))]
         /\ UNCHANGED <<pc, hist>>

InAddDb(t, at) ==
    /\ pc[t] = "add_db"
    /\ stack[t] # << >>
    /\ Top(t).pc = at

\* A CreateFsNodeQuery that writes no row
NoNodeWritten(id, path) == {}

\* CreateFsNodeQuery, fs.rs:236-258: the row it creates
CreateFsNodeQuery(id, path) == {[id |-> id, path |-> path]}

\* A Symlink::add_db that asks for the parents of every target
TargetParentsAlways(parents) == TRUE

\* fs.rs:436-443: Symlink::add_db passes its parents flag to the call that
\* indexes the target
TargetParents(parents) == parents

\* A transaction whose rows stay when a statement of it fails
KeptOnFailure(failed, rows) == rows

\* BEGIN TRANSACTION ... COMMIT TRANSACTION (fs.rs:383-394): the rows a
\* statement created are dropped when a later statement fails
Committed(failed, rows) == IF failed THEN {} ELSE rows

\* fs.rs:154-161: the lookup; a row found is returned
FindNode(t) ==
    /\ InAddDb(t, "find")
    /\ LET found == FindNodeByPathQuery(Top(t).path)
       IN  \E r \in (IF found = {} THEN {Failed}
                      ELSE {OkId(id) : id \in found}) :
             IF ~r.ok
             THEN /\ stack' = [stack EXCEPT ![t] =
                                 WithTop(@, [Top(t) EXCEPT !.pc = "create"])]
                  /\ UNCHANGED <<pc, hist>>
             ELSE ReturnFrom(t, r, FALSE)
    /\ UNCHANGED <<dbvars, stop, walk, resolved, entry, paths, ui>>

\* fs.rs:170-182: the probes that pick the kind query
KindOf(path) ==
    IF IsSymlink(path) THEN "symlink"
    ELSE IF IsDir(path) THEN "mkdir"
    ELSE IF IsFile(path) THEN "mkfile"
    ELSE "none"

\* fs.rs:163-182: CreateFsNodeQuery, then the probes; a symlink's target is
\* read (fs.rs:421-436) and indexed by a nested call
CreateNode(t) ==
    /\ InAddDb(t, "create")
    /\ LET f == Top(t)
           id == NewId(f.path, t)
           kind == KindOf(f.path)
       IN  /\ fs_node' = fs_node \cup CreateFsNodeQuery(id, f.path)
           /\ IF kind = "symlink" /\ f.path \in DOMAIN LinkTarget
              THEN /\ CanNest(t)
                   /\ stack' = [stack EXCEPT ![t] =
                          Push(WithTop(@, [f EXCEPT !.id = id]), "symlink",
                               Call(LinkTarget[f.path],
                                    TargetParents(f.parents)))]
                   /\ UNCHANGED <<pc, hist>>
              ELSE IF kind \in {"mkdir", "mkfile"}
              THEN /\ stack' = [stack EXCEPT ![t] =
                          WithTop(@, [f EXCEPT !.pc = kind, !.id = id])]
                   /\ UNCHANGED <<pc, hist>>
              ELSE ThenParents(t, id)
    /\ UNCHANGED <<file, directory, symlink, is_file, is_dir, is_symlink,
                   is_symlink_of, is_parent_of, icon, is_icon, app, is_app,
                   has_icon, live, view, daemon, stop, walk, resolved, entry,
                   paths, ui>>

\* fs.rs:267-277, 280-295: CreateDirectoryQuery
CreateDirectory(t) ==
    /\ InAddDb(t, "mkdir")
    /\ LET f == Top(t)
           dir == NewId(f.path, t)
       IN  /\ directory' = directory \cup {dir}
           /\ is_dir' = is_dir \cup {<<f.id, dir>>}
           /\ ThenParents(t, f.id)
    /\ UNCHANGED <<fs_node, file, symlink, is_file, is_symlink, is_symlink_of,
                   is_parent_of, icon, is_icon, app, is_app, has_icon, live,
                   view, daemon,
                   stop, walk, resolved, entry, paths, ui>>


\* The icon row that icon_file_added creates (fs.rs:333-342)
IconRow(fid, path) ==
    [id |-> fid, name |-> IconName(FileStem(path)), path |-> path,
     svg |-> (Extension(path) = "svg"), xpm |-> (Extension(path) = "xpm"),
     dims |-> IconDims(path)]

\* icon_path_ind (apps.rs:170) rejects a second icon row of a path; the
\* event's error fails the statement that fired it
IconPathTaken(path) == \E i \in icon : i.path = path

\* The live queries of the daemon's ingestion tasks (main.rs:143-145) get
\* the notification too
DaemonNotify(path) ==
    IF Extension(path) # "desktop" THEN daemon
    ELSE [daemon EXCEPT !.ingest =
            [r \in DOMAIN daemon.ingest |->
                IF daemon.ingest[r].open
                THEN [daemon.ingest[r] EXCEPT !.queue = Append(@, path)]
                ELSE daemon.ingest[r]]]

\* LiveSearchAppsQuery (apps.rs:204-206): the Create notification of a new
\* is_file edge whose file has ext 'desktop'
Notify(path) ==
    IF live.open /\ Extension(path) = "desktop"
    THEN [live EXCEPT !.queue = Append(@, path)]
    ELSE live

\* A notification of the live queries of the launcher, as AppWithIcon: the
\* app row with the id of the icon in its icon field, NoId for NONE
AppWithIcon(a, iconid) ==
    [kind |-> "Create", id |-> a.id, name |-> a.name, icon |-> iconid]

\* GetLiveAppIconUpdates (apps.rs:153-164): LIVE SELECT ... FROM has_icon
\* FETCH icon: one Create notification per new has_icon edge, the row of
\* the app at `in` with the icon at `out` (an event relates one edge at
\* most)
IconUpdates(apps, edges) ==
    IF ~view.upd_open THEN view.upd_q
    ELSE view.upd_q \o
         [k \in 1..Cardinality(edges) |->
            LET e == CHOOSE x \in edges : TRUE
            IN  AppWithIcon(CHOOSE a \in apps : a.id = e[1], e[2])]

\* fs.rs:356-376, 379-400: CreateFileQuery, in one transaction with the
\* events it fires: icon_file_added (fs.rs:309-344) on the is_file edge and
\* icon_added (apps.rs:172-181) on the icon row
CreateFile(t) ==
    /\ InAddDb(t, "mkfile")
    /\ LET f == Top(t)
           fid == NewId(f.path, t)
           row == IconRow(fid, f.path)
           failed == Extension(f.path) \in ImageExts /\ IconPathTaken(f.path)
       IN  /\ file' = file \cup
                Committed(failed, {[id |-> fid, stem |-> FileStem(f.path),
                                    ext |-> Extension(f.path)]})
           /\ IF failed
              THEN /\ ReturnFrom(t, Failed, TRUE)
                   /\ UNCHANGED <<is_file, icon, is_icon, has_icon, live,
                                  view, daemon>>
              ELSE /\ is_file' = is_file \cup {<<f.id, fid>>}
                   /\ live' = Notify(f.path)
                   /\ daemon' = DaemonNotify(f.path)
                   /\ IF Extension(f.path) \in ImageExts
                      THEN /\ icon' = icon \cup {row}
                           /\ is_icon' = is_icon \cup {<<fid, row.id>>}
                           /\ \E e \in icon_added(app, row) :
                                 /\ has_icon' = has_icon \cup e
                                 /\ view' = [view EXCEPT
                                               !.upd_q = IconUpdates(app, e)]
                      ELSE UNCHANGED <<icon, is_icon, has_icon, view>>
                   /\ ThenParents(t, f.id)
    /\ UNCHANGED <<fs_node, directory, symlink, is_dir, is_symlink,
                   is_symlink_of, is_parent_of, app, is_app, stop, walk,
                   resolved, entry, paths, ui>>

\* fs.rs:436-445, 449-466: the nested call of the target has returned;
\* CreateSymlinkQuery
CreateSymlink(t) ==
    /\ InAddDb(t, "symlink")
    /\ LET f == Top(t)
           sid == NewId(f.path, t)
       IN  IF ~f.ret.ok
           THEN /\ ReturnFrom(t, Failed, TRUE)
                /\ UNCHANGED <<symlink, is_symlink, is_symlink_of>>
           ELSE /\ symlink' = symlink \cup {sid}
                /\ is_symlink' = is_symlink \cup {<<f.id, sid>>}
                /\ is_symlink_of' = is_symlink_of \cup {<<sid, f.ret.id>>}
                /\ ThenParents(t, f.id)
    /\ UNCHANGED <<fs_node, file, directory, is_file, is_dir, is_parent_of,
                   icon, is_icon, app, is_app, has_icon, live, view, daemon,
                   stop, walk,
                   resolved, entry, paths, ui>>

\* fs.rs:198-218: add_parent: the nested call of the parent has returned;
\* RelateQuery
RelateParent(t) ==
    /\ InAddDb(t, "parent")
    /\ LET f == Top(t)
       IN  IF ~f.ret.ok
           THEN /\ ReturnFrom(t, Failed, TRUE)
                /\ UNCHANGED is_parent_of
           ELSE /\ is_parent_of' = is_parent_of \cup {<<f.ret.id, f.id>>}
                /\ ReturnFrom(t, OkId(f.id), TRUE)
    /\ UNCHANGED <<fs_node, file, directory, symlink, is_file, is_dir,
                   is_symlink, is_symlink_of, icon, is_icon, app, is_app,
                   has_icon, live, view, daemon, stop, walk, resolved, entry,
                   paths, ui>>

(***************************************************************************)
(* check_stop! and fs::index.                                               *)
(***************************************************************************)

\* check_stop!, fs.rs:15 and 29: the probe $stop_recv.is_empty(); a task
\* that finds a message goes on to recv (at `recv`), else to `next`.  A
\* closed channel without a message is empty: recv, which alone reports
\* ChannelClosed, is not called
check_stop(t, probes, recv, next) ==
    IF probes /\ stop.len > 0 THEN recv ELSE next

\* The JoinSet a task was spawned on (search.rs:91, 176, 191).
Owner(t) ==
    IF t \in IndexTasks THEN IndexArgs(t).of ELSE "search"

\* Task t ends with `res`, which its JoinSet keeps for join_all.
Finish(t, res) ==
    /\ pc' = [pc EXCEPT ![t] = "done"]
    /\ result' = [result EXCEPT ![t] = res]
    /\ joinset' = IF Owner(t) = None THEN joinset
                  ELSE [joinset EXCEPT ![Owner(t)] = Append(@, res)]

\* fs.rs:56-58: the first probe of index
IndexStart(t) ==
    /\ pc[t] = "start"
    /\ pc' = [pc EXCEPT ![t] = check_stop(t, IndexArgs(t).stop, "recv", "init")]
    /\ UNCHANGED <<dbvars, stop, walk, stack, resolved, entry, paths, ui, hist>>

\* fs.rs:60-115: walk_dir, and the probe before the loop
IndexInit(t) ==
    /\ pc[t] = "init"
    /\ walk' = [walk EXCEPT ![t] = WalkDir(IndexArgs(t).root)]
    /\ pc' = [pc EXCEPT ![t] = check_stop(t, IndexArgs(t).stop, "recv", "entry")]
    /\ UNCHANGED <<dbvars, stop, stack, resolved, entry, paths, ui, hist>>

\* check_stop!, fs.rs:17-25: recv takes the message and the task resolves
\* with InterruptedByParent
IndexRecv(t) ==
    /\ pc[t] = "recv"
    /\ stop.len > 0
    /\ stop' = [stop EXCEPT !.len = @ - 1]
    /\ Finish(t, "InterruptedByParent")
    /\ UNCHANGED <<dbvars, walk, stack, entry, paths, ui, hist>>

\* fs.rs:117-130 and 73-93: walkdir.next() polls the filter_map closure on
\* the next entry: its probe, then the entry's error and pre_filter, then
\* the first query of add_db; the walk over, index returns Ok
IndexEntry(t) ==
    /\ pc[t] = "entry"
    /\ IF walk[t] = << >>
       THEN /\ Finish(t, "Ok")
            /\ UNCHANGED <<walk, stack>>
       ELSE IF check_stop(t, IndexArgs(t).stop, "recv", "go") = "recv"
       THEN /\ pc' = [pc EXCEPT ![t] = "recv_opt"]
            /\ UNCHANGED <<walk, stack, resolved>>
       ELSE IF SkipEntry(IndexArgs(t).exts, Head(walk[t]))
       THEN /\ walk' = [walk EXCEPT ![t] = Tail(@)]
            /\ UNCHANGED <<pc, stack, resolved>>
       ELSE /\ walk' = [walk EXCEPT ![t] = Tail(@)]
            /\ stack' = [stack EXCEPT ![t] =
                            <<Call(Head(walk[t]), IndexArgs(t).parents)>>]
            /\ pc' = [pc EXCEPT ![t] = "add_db"]
            /\ UNCHANGED resolved
    /\ hist' = IF pc'[t] = "add_db"
               THEN [hist EXCEPT !.visited = @ \cup {<<t, Head(walk[t])>>}]
               ELSE hist
    /\ UNCHANGED <<dbvars, stop, entry, paths, ui>>

\* check_stop!(@opt), fs.rs:31-37: recv takes the message and the closure
\* returns None: filter_map drops the entry and polls the next one
IndexRecvOpt(t) ==
    /\ pc[t] = "recv_opt"
    /\ stop.len > 0
    /\ stop' = [stop EXCEPT !.len = @ - 1]
    /\ walk' = [walk EXCEPT ![t] = Tail(@)]
    /\ pc' = [pc EXCEPT ![t] = "entry"]
    /\ hist' = [hist EXCEPT !.opt_recv = @ \cup {t}]
    /\ UNCHANGED <<dbvars, stack, resolved, entry, paths, ui>>

\* fs.rs:125-127: the probe of the loop body, after an entry got through
IndexAfter(t) ==
    /\ pc[t] = "after"
    /\ pc' = [pc EXCEPT ![t] = check_stop(t, IndexArgs(t).stop, "recv", "entry")]
    /\ UNCHANGED <<dbvars, stop, walk, stack, resolved, entry, paths, ui, hist>>

\* One step of FSNode::add_db
AddDb(t) ==
    \/ FindNode(t)
    \/ CreateNode(t)
    \/ CreateDirectory(t)
    \/ CreateFile(t)
    \/ CreateSymlink(t)
    \/ RelateParent(t)

(***************************************************************************)
(* Indexing without a stop receiver: two index calls over roots whose       *)
(* symlinks share a target.                                                 *)
(***************************************************************************)

Running == "running"

\* The subscription before it runs, and the launcher before any message.
ViewOff ==
    [pc |-> "off", apps_open |-> FALSE, upd_open |-> FALSE,
     apps_q |-> << >>, upd_q |-> << >>, errs |-> 0]

\* apps, filtered, search and selected are the fields of LeaperLauncher
\* (lib.rs:53-67); msgs is the channel of the subscription, snap the result
\* of GetAppWithIconsQuery on its way to update, init how far InitApps has
\* got; added (the ids update received in Msg::AddApp) and sub (what became
\* of a `0 - 1` in update) are observations
UiOff ==
    [apps |-> << >>, msgs |-> << >>, exited |-> FALSE, filtered |-> << >>,
     search |-> "", selected |-> 0, snap |-> << >>, init |-> "no",
     added |-> {}, sub |-> "none"]

\* The daemon before a search_apps request: SEARCHING_FOR_APPS_ICONS
\* (main.rs:66), the data directory of the environment, the requests r1
\* and r2 and the ingestion tasks of their jobs
DaemonOff ==
    [flag |-> FALSE, root |-> << >>,
     req |-> [r \in {"r1", "r2"} |-> "none"],
     ingest |-> [r \in {"r1", "r2"} |->
                   [pc |-> "off", open |-> FALSE, queue |-> << >>]]]

\* No launcher and no daemon run next to the tasks.
NoLauncher == view = ViewOff /\ ui = UiOff /\ daemon = DaemonOff

EmptyDb ==
    /\ fs_node = {} /\ file = {} /\ directory = {} /\ symlink = {}
    /\ is_file = {} /\ is_dir = {} /\ is_symlink = {} /\ is_symlink_of = {}
    /\ is_parent_of = {} /\ icon = {} /\ is_icon = {} /\ app = {}
    /\ is_app = {} /\ has_icon = {}

\* The paths LiveSearchAppsQuery can notify of.
DesktopFiles == {p \in RegularFiles : Extension(p) = "desktop"}

NoHist ==
    [calls |-> {},                              \* completed add_db calls
     at_stop |-> {},                            \* tasks running at the first send
     parsed |-> [p \in DesktopFiles |-> 0],     \* CreateAppEntryQuery::new calls
     parsed_ok |-> {},                          \* paths new returned Ok for
     opt_recv |-> {},                           \* index tasks whose per-entry
                                                \* probe took a message
     visited |-> {},                            \* <<task, path>> passed to add_db
     failed |-> {}]                             \* <<task, path>> whose add_db
                                                \* returned an error to index

\* The index calls `started` are about to run on an empty database.
InitPlain(started) ==
    /\ EmptyDb
    /\ NoLauncher
    /\ live = [open |-> FALSE, queue |-> << >>]
    /\ stop = [len |-> 0, sent |-> 0, closed |-> FALSE]
    /\ pc = [t \in Tasks |-> IF t \in started THEN "start" ELSE "off"]
    /\ walk = [t \in IndexTasks |-> << >>]
    /\ stack = [t \in IndexTasks |-> << >>]
    /\ entry = << >>
    /\ result = [t \in Tasks |-> Running]
    /\ joinset = [o \in JoinSets |-> << >>]
    /\ hist = NoHist
    /\ paths = [s \in SearchPathsTasks |-> {}]

InitIndex == InitPlain({"idx_x", "idx_y"})

NextIndex ==
    \E t \in PlainIndexTasks :
        \/ IndexStart(t)
        \/ IndexInit(t)
        \/ IndexEntry(t)
        \/ AddDb(t)
        \/ IndexAfter(t)

SpecIndex == InitIndex /\ [][NextIndex]_vars

\* Two index calls with parents over the same icon directory, whose
\* components have the form WxH and which holds a symlink to an image file
\* with an upper-case extension.
InitMedia == InitPlain({"idx_m", "idx_n"})

SpecMedia == InitMedia /\ [][NextIndex]_vars

\* An index call over a directory of symlinks that form a cycle and of a
\* symlink to itself, next to the index call over /y.
InitCycle == InitPlain({"idx_c", "idx_y"})

SpecCycle == InitCycle /\ [][NextIndex]_vars

\* The scheduler runs every task that can take a step.
SpecCycleFair == SpecCycle /\ WF_vars(NextIndex)


(***************************************************************************)
(* The pipeline: AppsFinder::search with its ingestion task and its two     *)
(* search_paths tasks, and the launcher that sends the stop message.        *)
(***************************************************************************)

\* How many Exit messages the launcher handles.
MaxStops == 2

\* search.rs:25: tokio_mpmc::channel(10)
StopCapacity == 10

PipelineTasks == {IngestTask} \cup SearchPathsTasks \cup PipelineIndexTasks

\* search.rs:183-216: the index tasks of a search_paths task, one per path
IndexTasksOf(s) ==
    {t \in PipelineIndexTasks :
        IndexArgs(t).of = s /\ IndexArgs(t).root \in paths[s]}

\* lib.rs:165-183: Msg::Exit sends () on the stop channel.  The sender is
\* taken out of the message, which holds a clone of self.stop_search_sender
\* (lib.rs:191, 224, 243, 382, 402); the field itself stays Some, so every
\* Exit message that update handles sends.
SendStop ==
    /\ stop.sent < MaxStops
    /\ ~stop.closed
    /\ stop.len < StopCapacity
    /\ stop' = [stop EXCEPT !.len = @ + 1, !.sent = @ + 1]
    /\ hist' = IF stop.sent = 0
               THEN [hist EXCEPT !.at_stop =
                        {t \in PipelineTasks : pc[t] \notin {"off", "done"}}]
               ELSE hist
    /\ UNCHANGED <<dbvars, pc, walk, stack, entry, paths, ui, resolved>>

\* The launcher goes away without an Exit message: every sender is dropped
\* and the channel is closed with no message sent (lib.rs:200)
CloseStop ==
    /\ stop.sent = 0
    /\ ~stop.closed
    /\ stop' = [stop EXCEPT !.closed = TRUE]
    /\ UNCHANGED <<dbvars, pc, walk, stack, entry, paths, ui, resolved, hist>>

\* search.rs:154-157 and 220-224: join_all().await.into_iter().collect():
\* the first Err among the results, in the order the tasks ended
JoinResult(results) ==
    LET errs == {i \in DOMAIN results : results[i] # "Ok"}
    IN  IF errs = {} THEN "Ok"
        ELSE results[CHOOSE i \in errs : \A j \in errs : i <= j]

\* search.rs:153-159: search joins its three tasks
SearchJoin ==
    /\ pc[SearchTask] = "join"
    /\ Len(joinset[SearchTask]) = Cardinality({IngestTask} \cup SearchPathsTasks)
    /\ pc' = [pc EXCEPT ![SearchTask] = "done"]
    /\ result' = [result EXCEPT ![SearchTask] = JoinResult(joinset[SearchTask])]
    /\ UNCHANGED <<dbvars, stop, walk, stack, entry, paths, ui, joinset, hist>>

\* search.rs:179: the first probe of a search_paths task
SearchPathsStart(s) ==
    /\ pc[s] = "start"
    /\ pc' = [pc EXCEPT ![s] = check_stop(s, TRUE, "recv", "spawn")]
    /\ UNCHANGED <<dbvars, stop, walk, stack, entry, paths, ui, resolved, hist>>

\* search.rs:183-216: one fs::index task per path
SearchPathsSpawn(s) ==
    /\ pc[s] = "spawn"
    /\ pc' = [t \in Tasks |->
                IF t = s THEN "probe"
                ELSE IF t \in IndexTasksOf(s) THEN "start"
                ELSE pc[t]]
    /\ UNCHANGED <<dbvars, stop, walk, stack, entry, paths, ui, resolved, hist>>

\* search.rs:218: the probe before the join
SearchPathsProbe(s) ==
    /\ pc[s] = "probe"
    /\ pc' = [pc EXCEPT ![s] = check_stop(s, TRUE, "recv", "join")]
    /\ UNCHANGED <<dbvars, stop, walk, stack, entry, paths, ui, resolved, hist>>

\* check_stop!, fs.rs:17-25, in search_paths: recv takes the message and the
\* task returns InterruptedByParent; index_tasks is dropped, which aborts
\* the index tasks still running
SearchPathsRecv(s) ==
    /\ pc[s] = "recv"
    /\ stop.len > 0
    /\ stop' = [stop EXCEPT !.len = @ - 1]
    /\ pc' = [t \in Tasks |->
                IF t = s \/ (t \in IndexTasksOf(s) /\ pc[t] # "off")
                THEN "done" ELSE pc[t]]
    /\ result' = [t \in Tasks |->
                IF t = s THEN "InterruptedByParent"
                ELSE IF t \in IndexTasksOf(s) /\ pc[t] \notin {"off", "done"}
                THEN "Aborted"
                ELSE result[t]]
    /\ joinset' = [joinset EXCEPT ![SearchTask] = Append(@, "InterruptedByParent")]
    /\ UNCHANGED <<dbvars, walk, stack, entry, paths, ui, hist>>

\* search.rs:220-226: join_all of the index tasks
SearchPathsJoin(s) ==
    /\ pc[s] = "join"
    /\ Len(joinset[s]) = Cardinality(IndexTasksOf(s))
    /\ Finish(s, JoinResult(joinset[s]))
    /\ UNCHANGED <<dbvars, stop, walk, stack, entry, paths, ui, hist>>

\* search.rs:92-94: the ingestion task opens the live query
IngestOpen ==
    /\ pc[IngestTask] = "start"
    /\ live' = [live EXCEPT !.open = TRUE]
    /\ pc' = [pc EXCEPT ![IngestTask] = "probe96"]
    /\ UNCHANGED <<fs_node, file, directory, symlink, is_file, is_dir,
                   is_symlink, is_symlink_of, is_parent_of, icon, is_icon,
                   app, is_app, has_icon, view, daemon, stop, walk, stack,
                   entry,
                   paths, ui, resolved, hist>>

\* search.rs:96 and 99: the probes of the ingestion task
IngestProbe ==
    /\ pc[IngestTask] \in {"probe96", "probe99"}
    /\ pc' = [pc EXCEPT ![IngestTask] =
                check_stop(IngestTask, TRUE, "recv",
                           IF pc[IngestTask] = "probe96" THEN "wait"
                           ELSE "handle")]
    /\ UNCHANGED <<dbvars, stop, walk, stack, entry, paths, ui, resolved, hist>>

\* check_stop!, fs.rs:17-25, in the ingestion task
IngestRecv ==
    /\ pc[IngestTask] = "recv"
    /\ stop.len > 0
    /\ stop' = [stop EXCEPT !.len = @ - 1]
    /\ Finish(IngestTask, "InterruptedByParent")
    /\ UNCHANGED <<dbvars, walk, stack, entry, paths, ui, hist>>

\* search.rs:98: desktop_entries_stream.next().await yields a notification;
\* the stream of a live query does not end
IngestNext ==
    /\ pc[IngestTask] = "wait"
    /\ live.queue # << >>
    /\ entry' = <<Head(live.queue)>>
    /\ live' = [live EXCEPT !.queue = Tail(@)]
    /\ pc' = [pc EXCEPT ![IngestTask] = "probe99"]
    /\ UNCHANGED <<fs_node, file, directory, symlink, is_file, is_dir,
                   is_symlink, is_symlink_of, is_parent_of, icon, is_icon,
                   app, is_app, has_icon, view, daemon, stop, walk, stack,
                   resolved,
                   hist, paths, ui>>

\* shlex::split (apps.rs:101-103) of a value without quotes and escapes:
\* the words between the spaces, in their order; none for a value of
\* spaces only or an empty one
shlex_split(s) ==
    LET starts == {i \in DOMAIN s : s[i] # " " /\ (i = 1 \/ s[i - 1] = " ")}
        last(i) == CHOOSE j \in i..Len(s) :
                      /\ \A k \in i..j : s[k] # " "
                      /\ (j = Len(s) \/ s[j + 1] = " ")
        nth(n) == CHOOSE i \in starts :
                      Cardinality({j \in starts : j < i}) = n - 1
    IN  [n \in 1..Cardinality(starts) |-> SubSeq(s, nth(n), last(nth(n)))]

\* apps.rs:69-118: CreateAppEntryQuery::new: the name, Unknown without
\* one; the Exec value split into words, DesktopEntryNoExec without the
\* key; the icon name
CreateAppEntryQuery_new(path) ==
    LET e == DesktopEntry(path)
    IN  [ok |-> e.has_exec,
         path |-> path,
         name |-> IF e.full_name = None THEN "Unknown" ELSE e.full_name,
         exec |-> shlex_split(e.exec),
         icon_name |-> e.icon]

\* A schema without app_name_ind: only app_dep_ind rejects the row
AppRejectedByPathOnly(apps, q) ==
    \E a \in apps : a.path = q.path

\* A schema without a unique index on app: no row is rejected
AppNeverRejected(apps, q) == FALSE

\* GetLiveAppWithIconsQuery (apps.rs:141-151): LIVE SELECT ... FROM app:
\* the queue after the Create notification of a new app row.  Its icon
\* field is computed in the transaction of the row, in which app_entry_added
\* writes the edges `edges`: whether the projection already sees them is
\* left open
AppCreated(row, edges) ==
    IF ~view.apps_open THEN {view.apps_q}
    ELSE {Append(view.apps_q, AppWithIcon(row, i)) :
            i \in {NoId} \cup {e[2] : e \in edges}}

\* app_dep_ind and app_name_ind (apps.rs:15-16) reject the row
AppRejected(apps, q) ==
    \E a \in apps : a.path = q.path \/ a.name = q.name

\* The app row of CreateAppEntryQuery (apps.rs:48-52)
AppRow(q, t) ==
    [id |-> NewId(q.path, t), path |-> q.path, name |-> q.name,
     exec |-> q.exec, icon_name |-> q.icon_name]

\* apps.rs:53-55: the is_app edges: from the files of the fs_node that
\* SELECT ... FROM ONLY fs_node WHERE path == {path} LIMIT 1 returns
IsAppEdges(q, aid) ==
    IF FindNodeByPathQuery(q.path) = {} THEN {{}}
    ELSE { { <<e[2], aid>> : e \in {d \in is_file : d[1] = n} } :
           n \in FindNodeByPathQuery(q.path) }

\* search.rs:101-123: the Create notification: the entry is parsed (an Err
\* ends the task) and CreateAppEntryQuery is executed in one transaction
\* with app_entry_added; the result of the query is dropped
IngestHandle ==
    /\ pc[IngestTask] = "handle"
    /\ LET q == CreateAppEntryQuery_new(entry[1])
           row == AppRow(q, IngestTask)
       IN  /\ hist' = [hist EXCEPT
                          !.parsed[entry[1]] = @ + 1,
                          !.parsed_ok = IF q.ok THEN @ \cup {entry[1]} ELSE @]
           /\ IF ~q.ok
              THEN /\ Finish(IngestTask, "DesktopEntryNoExec")
                   /\ UNCHANGED <<app, is_app, has_icon, view>>
              ELSE /\ pc' = [pc EXCEPT ![IngestTask] = "wait"]
                   /\ UNCHANGED resolved
                   /\ IF AppRejected(app, q)
                      THEN UNCHANGED <<app, is_app, has_icon, view>>
                      ELSE /\ app' = app \cup {row}
                           /\ \E e \in app_entry_added(icon, row) :
                                 /\ has_icon' = has_icon \cup e
                                 /\ \E n \in AppCreated(row, e) :
                                       view' = [view EXCEPT
                                          !.apps_q = n,
                                          !.upd_q = IconUpdates({row}, e)]
                           /\ \E e \in IsAppEdges(q, row.id) :
                                 is_app' = is_app \cup e
    /\ entry' = << >>
    /\ UNCHANGED <<fs_node, file, directory, symlink, is_file, is_dir,
                   is_symlink, is_symlink_of, is_parent_of, icon, is_icon,
                   live, daemon, stop, walk, stack, paths, ui>>

\* One step of the ingestion task
Ingest ==
    \/ IngestOpen
    \/ IngestProbe
    \/ IngestRecv
    \/ IngestNext
    \/ IngestHandle

\* One step of a search_paths task
SearchPaths(s) ==
    \/ SearchPathsStart(s)
    \/ SearchPathsSpawn(s)
    \/ SearchPathsProbe(s)
    \/ SearchPathsRecv(s)
    \/ SearchPathsJoin(s)

\* One step of an fs::index task of the pipeline, whose roots hold regular
\* files only
Index(t) ==
    \/ IndexStart(t)
    \/ IndexInit(t)
    \/ IndexRecv(t)
    \/ IndexEntry(t)
    \/ IndexRecvOpt(t)
    \/ FindNode(t)
    \/ CreateNode(t)
    \/ CreateFile(t)
    \/ IndexAfter(t)

\* One step of a task of the pipeline
PipelineNext ==
    \/ Ingest
    \/ \E s \in SearchPathsTasks : SearchPaths(s)
    \/ \E t \in PipelineIndexTasks : Index(t)
    \/ SearchJoin

(***************************************************************************)
(* The launcher: the live_apps subscription, which merges the streams of    *)
(* its two live queries and sends what they yield to update.                *)
(***************************************************************************)

\* How many errors the stream of GetLiveAppWithIconsQuery yields.
MaxErrors == 1

\* lib.rs:451: stream::channel(1, ...)
MsgCapacity == 1

\* lib.rs:452-454: the subscription opens GetLiveAppWithIconsQuery
SubOpenApps ==
    /\ view.pc = "open_apps"
    /\ ~ui.exited
    /\ view' = [view EXCEPT !.apps_open = TRUE, !.pc = "open_updates"]
    /\ UNCHANGED <<fs_node, file, directory, symlink, is_file, is_dir,
                   is_symlink, is_symlink_of, is_parent_of, icon, is_icon,
                   app, is_app, has_icon, live, daemon, ui, stop, pc, walk,
                   stack,
                   entry, paths, resolved, hist>>

\* lib.rs:455-462: it opens GetLiveAppIconUpdates and merges the streams
SubOpenUpdates ==
    /\ view.pc = "open_updates"
    /\ ~ui.exited
    /\ view' = [view EXCEPT !.upd_open = TRUE, !.pc = "next"]
    /\ UNCHANGED <<fs_node, file, directory, symlink, is_file, is_dir,
                   is_symlink, is_symlink_of, is_parent_of, icon, is_icon,
                   app, is_app, has_icon, live, daemon, ui, stop, pc, walk,
                   stack,
                   entry, paths, resolved, hist>>

\* The stream of GetLiveAppWithIconsQuery yields an error.
ViewError ==
    /\ view.apps_open
    /\ view.pc # "done"
    /\ ~ui.exited
    /\ view.errs < MaxErrors
    /\ view' = [view EXCEPT
                  !.errs = @ + 1,
                  !.apps_q = Append(@, [kind |-> "Err", id |-> NoId,
                                        name |-> None, icon |-> NoId])]
    /\ UNCHANGED <<fs_node, file, directory, symlink, is_file, is_dir,
                   is_symlink, is_symlink_of, is_parent_of, icon, is_icon,
                   app, is_app, has_icon, live, daemon, ui, stop, pc, walk,
                   stack,
                   entry, paths, resolved, hist>>

\* lib.rs:480-523: stream.next() yields the head of one of the merged
\* streams.  A notification is sent to update as Msg::AddApp; on an Err the
\* subscription logs it, sends Msg::Exit and returns.  (The send waits for
\* room in the channel.)
SubNext ==
    /\ view.pc = "next"
    /\ ~ui.exited
    /\ Len(ui.msgs) < MsgCapacity
    /\ \E q \in {"apps_q", "upd_q"} :
          /\ view[q] # << >>
          /\ LET n == Head(view[q])
             IN  /\ view' = [view EXCEPT
                               ![q] = Tail(@),
                               !.pc = IF n.kind = "Err" THEN "done" ELSE @]
                 /\ ui' = [ui EXCEPT !.msgs = Append(@,
                               IF n.kind = "Err"
                               THEN [n EXCEPT !.kind = "Exit"]
                               ELSE [n EXCEPT !.kind = "AddApp"])]
    /\ UNCHANGED <<fs_node, file, directory, symlink, is_file, is_dir,
                   is_symlink, is_symlink_of, is_parent_of, icon, is_icon,
                   app, is_app, has_icon, live, daemon, stop, pc, walk, stack,
                   entry, paths, resolved, hist>>

\* An update that pushes every app it receives and does not sort
AddAppPushes(apps, x) == Append(apps, x)

\* lib.rs:249-265: self.apps after Msg::AddApp: the entry of the same id is
\* replaced; a new entry is pushed and the list sorted by name (sort_by_key
\* is stable: the new entry comes after the entries of names not greater)
AddApp(apps, x) ==
    LET same == {k \in DOMAIN apps : apps[k].id = x.id}
        ind == CHOOSE k \in same : \A j \in same : k <= j
        before == SelectSeq(apps,
                     LAMBDA y : NameRank(y.name) <= NameRank(x.name))
        after == SelectSeq(apps,
                     LAMBDA y : NameRank(y.name) > NameRank(x.name))
    IN  IF same # {} THEN [apps EXCEPT ![ind] = x]
        ELSE before \o <<x>> \o after

\* lib.rs:249-265: update handles Msg::AddApp
UpdateAddApp ==
    /\ ~ui.exited
    /\ ui.msgs # << >>
    /\ Head(ui.msgs).kind = "AddApp"
    /\ ui' = [ui EXCEPT
                !.msgs = Tail(@),
                !.added = @ \cup {Head(ui.msgs).id},
                !.apps = AddApp(@, [id |-> Head(ui.msgs).id,
                                    name |-> Head(ui.msgs).name,
                                    icon |-> Head(ui.msgs).icon])]
    /\ UNCHANGED <<fs_node, file, directory, symlink, is_file, is_dir,
                   is_symlink, is_symlink_of, is_parent_of, icon, is_icon,
                   app, is_app, has_icon, live, view, daemon, stop, pc, walk,
                   stack,
                   entry, paths, resolved, hist>>

\* lib.rs:165-183: update handles the Msg::Exit of the subscription: it
\* sends () on the stop channel and exits
UpdateExit ==
    /\ ~ui.exited
    /\ ui.msgs # << >>
    /\ Head(ui.msgs).kind = "Exit"
    /\ stop.len < StopCapacity
    /\ ui' = [ui EXCEPT !.msgs = Tail(@), !.exited = TRUE]
    /\ stop' = [stop EXCEPT !.len = @ + 1, !.sent = @ + 1]
    /\ hist' = IF stop.sent = 0
               THEN [hist EXCEPT !.at_stop =
                        {t \in PipelineTasks : pc[t] \notin {"off", "done"}}]
               ELSE hist
    /\ UNCHANGED <<fs_node, file, directory, symlink, is_file, is_dir,
                   is_symlink, is_symlink_of, is_parent_of, icon, is_icon,
                   app, is_app, has_icon, live, view, daemon, pc, walk, stack,
                   entry, paths, resolved>>

\* The app rows in the order of ORDER BY name ASC (apps.rs:135-136); names
\* are unique (app_name_ind), so the order is total
AppsByName ==
    CHOOSE s \in [1..Cardinality(app) -> app] :
        \A j, k \in 1..Cardinality(app) :
            j < k => NameRank(s[j].name) < NameRank(s[k].name)

\* GetAppWithIconsQuery, apps.rs:130-139: the results the query may return:
\* every app row in ascending name order, its icon field the id of an icon
\* row its has_icon edges lead to, NoId (NONE) when there is no such edge
GetAppWithIconsQuery ==
    LET rel(a) == {i \in icon : <<a.id, i.id>> \in has_icon}
        pick == {f \in [app -> {i.id : i \in icon} \cup {NoId}] :
                    \A a \in app :
                        IF rel(a) = {} THEN f[a] = NoId
                        ELSE f[a] \in {i.id : i \in rel(a)}}
    IN  {[k \in 1..Cardinality(app) |->
            [app |-> AppsByName[k], icon |-> f[AppsByName[k]]]] : f \in pick}

\* lib.rs:196-210: update handles Msg::InitApps: the task it returns runs
\* GetAppWithIconsQuery; the result waits to be handled as Msg::InitedApps
UpdateInitApps ==
    /\ ~ui.exited
    /\ ui.init = "no"
    /\ \E r \in GetAppWithIconsQuery :
          ui' = [ui EXCEPT
                   !.init = "asked",
                   !.snap = <<[k \in DOMAIN r |->
                                [id |-> r[k].app.id, name |-> r[k].app.name,
                                 icon |-> r[k].icon]]>>]
    /\ UNCHANGED <<dbvars, stop, pc, walk, stack, entry, paths, resolved,
                   hist>>

\* lib.rs:211-219: update handles Msg::InitedApps(Ok(apps))
UpdateInitedApps ==
    /\ ~ui.exited
    /\ ui.snap # << >>
    /\ ui' = [ui EXCEPT !.apps = ui.snap[1], !.snap = << >>, !.init = "yes"]
    /\ UNCHANGED <<dbvars, stop, pc, walk, stack, entry, paths, resolved,
                   hist>>

\* nucleo::Matcher::fuzzy_match (lib.rs:288-293) of the names of the apps
\* and the search texts typed: the score of a match (the matcher ignores
\* case), 0 for None
fuzzy_match(name, search) ==
    CASE search = "ba" /\ name \in {"Bar", "Baz"} -> 40
      [] search = "z" /\ name = "Baz" -> 16
      [] OTHER -> 0

\* lib.rs:267-309: update handles Msg::SearchInput.  selected is clamped by
\* the list shown before; filtered becomes the matching apps, the best
\* score first (sorted_by_key is stable, rev turns equal scores around);
\* selected is clamped by `len - 1` of the list shown now, in usize: with
\* len = 0 the subtraction panics where overflow checks are compiled in and
\* wraps where they are not (2^30 stands for the 2^64 of usize)
UpdateSearchInput(new_search) ==
    /\ ~ui.exited
    /\ LET clamp(x, lo, hi) == IF x < lo THEN lo ELSE IF x > hi THEN hi ELSE x
           shown == IF new_search = "" THEN ui.apps ELSE ui.filtered
           first == IF Len(shown) = 0 THEN 0
                    ELSE clamp(ui.selected, 0, Len(shown) - 1)
           hits == {k \in DOMAIN ui.apps :
                      fuzzy_match(ui.apps[k].name, new_search) # 0}
           score(k) == fuzzy_match(ui.apps[k].name, new_search)
           ahead(k) == {j \in hits : \/ score(j) > score(k)
                                     \/ score(j) = score(k) /\ j > k}
           filtered == IF new_search = "" THEN << >>
                       ELSE [n \in 1..Cardinality(hits) |->
                               ui.apps[CHOOSE k \in hits :
                                          Cardinality(ahead(k)) = n - 1]]
           len == IF new_search = "" THEN Len(ui.apps) ELSE Len(filtered)
       IN  \/ /\ len > 0
              /\ ui' = [ui EXCEPT !.search = new_search,
                                  !.filtered = filtered,
                                  !.selected = clamp(first, 0, len - 1)]
           \/ /\ len = 0
              /\ ui' = [ui EXCEPT !.search = new_search,
                                  !.filtered = filtered,
                                  !.selected = clamp(first, 0,
                                                     (len - 1) % (2 ^ 30)),
                                  !.sub = "wrapped"]
           \/ /\ len = 0
              /\ ui' = [ui EXCEPT !.search = new_search,
                                  !.filtered = filtered,
                                  !.selected = first,
                                  !.sub = "panicked",
                                  !.exited = TRUE]
    /\ UNCHANGED <<dbvars, stop, pc, walk, stack, entry, paths, resolved,
                   hist>>

\* lib.rs:310-325: update handles Msg::SelectUp
UpdateSelectUp ==
    /\ ~ui.exited
    /\ LET len == IF ui.search = "" THEN Len(ui.apps) ELSE Len(ui.filtered)
       IN  ui' = [ui EXCEPT !.selected =
                     IF len = 0 THEN 0
                     ELSE IF @ = 0 THEN len - 1 ELSE @ - 1]
    /\ UNCHANGED <<dbvars, stop, pc, walk, stack, entry, paths, resolved,
                   hist>>

\* lib.rs:326-341: update handles Msg::SelectDown
UpdateSelectDown ==
    /\ ~ui.exited
    /\ LET len == IF ui.search = "" THEN Len(ui.apps) ELSE Len(ui.filtered)
       IN  ui' = [ui EXCEPT !.selected =
                     IF len = 0 THEN 0
                     ELSE IF @ >= len - 1 THEN 0 ELSE @ + 1]
    /\ UNCHANGED <<dbvars, stop, pc, walk, stack, entry, paths, resolved,
                   hist>>

\* One step of the subscription or of update
LauncherNext ==
    \/ SubOpenApps
    \/ SubOpenUpdates
    \/ SubNext
    \/ UpdateAddApp

\* The state after search has spawned its three tasks (search.rs:32-151)
Spawned ==
    /\ EmptyDb
    /\ live = [open |-> FALSE, queue |-> << >>]
    /\ stop = [len |-> 0, sent |-> 0, closed |-> FALSE]
    /\ pc = [t \in Tasks |->
                IF t = SearchTask THEN "join"
                ELSE IF t \in {IngestTask} \cup SearchPathsTasks THEN "start"
                ELSE "off"]
    /\ walk = [t \in IndexTasks |-> << >>]
    /\ stack = [t \in IndexTasks |-> << >>]
    /\ entry = << >>
    /\ result = [t \in Tasks |-> Running]
    /\ joinset = [o \in JoinSets |-> << >>]
    /\ hist = NoHist

\* search.rs:37-84: one data directory, a root of both crawls
Init ==
    /\ Spawned
    /\ NoLauncher
    /\ paths = [s \in SearchPathsTasks |-> { <<"s", "a">> }]

Next == SendStop \/ PipelineNext

Spec == Init /\ [][Next]_vars

\* The tasks run whenever they can (the launcher sends when it likes).
SpecFair == Spec /\ WF_vars(PipelineNext)

(***************************************************************************)
(* The pipeline over the applications directory of the home, stopped by     *)
(* the launcher or not, and a later index call over the same directory.     *)
(***************************************************************************)

InitRerun ==
    /\ Spawned
    /\ NoLauncher
    /\ paths = [s \in SearchPathsTasks |->
                  IF s = "sp_apps" THEN { <<"s", "a">> } ELSE {}]

\* The crawl of the apps is over or was interrupted (its index tasks
\* aborted); the directory is indexed again
Rerun ==
    /\ pc["sp_apps"] = "done"
    /\ pc["idx_s"] = "off"
    /\ pc' = [pc EXCEPT !["idx_s"] = "start"]
    /\ UNCHANGED <<dbvars, stop, walk, stack, entry, paths, ui, resolved,
                   hist>>

SpecRerun ==
    InitRerun /\ [][\/ Next
                    \/ Rerun
                    \/ IndexStart("idx_s")
                    \/ IndexInit("idx_s")
                    \/ IndexEntry("idx_s")
                    \/ FindNode("idx_s")
                    \/ CreateNode("idx_s")
                    \/ CreateFile("idx_s")
                    \/ IndexAfter("idx_s")]_vars

(***************************************************************************)
(* The pipeline over overlapping roots: a data directory that lies below    *)
(* the applications directory of the home, with a launcher that does not    *)
(* exit while the crawl runs.                                               *)
(***************************************************************************)

\* search.rs:37-84: app_paths is the data directories and home_share_path,
\* icon_paths the data directories and home_icons_path
InitOverlap ==
    /\ Spawned
    /\ NoLauncher
    /\ paths = [s \in SearchPathsTasks |->
                  IF s = "sp_apps" THEN { <<"s">>, <<"s", "a">> }
                  ELSE { <<"s", "a">> }]

\* One step of the pipeline when no stop message is sent
NextCrawl ==
    \/ IngestOpen
    \/ IngestProbe
    \/ IngestNext
    \/ IngestHandle
    \/ \E s \in SearchPathsTasks :
          \/ SearchPathsStart(s)
          \/ SearchPathsSpawn(s)
          \/ SearchPathsProbe(s)
          \/ SearchPathsJoin(s)
    \/ \E t \in PipelineIndexTasks :
          \/ IndexStart(t)
          \/ IndexInit(t)
          \/ IndexEntry(t)
          \/ FindNode(t)
          \/ CreateNode(t)
          \/ CreateFile(t)
          \/ IndexAfter(t)

SpecOverlap == InitOverlap /\ [][NextCrawl]_vars

(***************************************************************************)
(* The pipeline over one data directory holding an icon and three desktop   *)
(* entries, with a launcher that does not exit while the crawl runs.        *)
(***************************************************************************)

InitCrawl ==
    /\ Spawned
    /\ NoLauncher
    /\ paths = [s \in SearchPathsTasks |-> { <<"h">> }]

SpecCrawl == InitCrawl /\ [][NextCrawl]_vars

(***************************************************************************)
(* The pipeline over one data directory holding a desktop entry without an  *)
(* Exec field and a valid one: without a stop message, and with one.        *)
(***************************************************************************)

InitTwo ==
    /\ Spawned
    /\ NoLauncher
    /\ paths = [s \in SearchPathsTasks |-> { <<"w">> }]

NextTwo == NextCrawl \/ SearchJoin

SpecTwo == InitTwo /\ [][NextTwo]_vars

SpecTwoStop == InitTwo /\ [][Next]_vars

(***************************************************************************)
(* The pipeline over one data directory, with a launcher that goes away     *)
(* without sending the stop message.                                        *)
(***************************************************************************)

NextClosed == CloseStop \/ NextCrawl

SpecClosed == Init /\ [][NextClosed]_vars

(***************************************************************************)
(* The pipeline over an icon directory of the home and a data directory     *)
(* below it, which hold image files and a directory that cannot be read.    *)
(***************************************************************************)

InitIcons ==
    /\ Spawned
    /\ NoLauncher
    /\ paths = [s \in SearchPathsTasks |->
                  IF s = "sp_icons" THEN { <<"v">>, <<"v", "a">> }
                  ELSE { <<"v", "a">> }]

SpecIcons == InitIcons /\ [][NextCrawl]_vars

(***************************************************************************)
(* The pipeline and the launcher's subscription over the data directory of  *)
(* an icon and three desktop entries; and over one data directory, with a   *)
(* live query that yields an error.                                         *)
(***************************************************************************)

\* lib.rs:439-451: the subscription runs once the database is there, next
\* to the search that Msg::LoadApps has started
WithLauncher ==
    /\ view = [ViewOff EXCEPT !.pc = "open_apps"]
    /\ ui = UiOff
    /\ daemon = DaemonOff

InitView ==
    /\ Spawned
    /\ WithLauncher
    /\ paths = [s \in SearchPathsTasks |-> { <<"h">> }]

SpecView == InitView /\ [][NextCrawl \/ LauncherNext]_vars

InitViewErr ==
    /\ Spawned
    /\ WithLauncher
    /\ paths = [s \in SearchPathsTasks |-> { <<"s", "a">> }]

NextViewErr == PipelineNext \/ LauncherNext \/ ViewError \/ UpdateExit

SpecViewErr == InitViewErr /\ [][NextViewErr]_vars

(***************************************************************************)
(* The launcher from Msg::InitApps on: the pipeline over the applications   *)
(* directory of the home, which holds two desktop entries (no data          *)
(* directory and no icon directory exist), the subscription, the snapshot   *)
(* of the app table, and the search text and selection keys of the user.    *)
(***************************************************************************)

InitSelect ==
    /\ Spawned
    /\ WithLauncher
    /\ paths = [s \in SearchPathsTasks |->
                  IF s = "sp_apps" THEN { <<"u">> } ELSE {}]

SpecSelect ==
    InitSelect /\ [][\/ NextCrawl
                     \/ LauncherNext
                     \/ UpdateInitApps
                     \/ UpdateInitedApps
                     \/ \E new_search \in {"", "ba", "z", "q"} :
                            UpdateSearchInput(new_search)
                     \/ UpdateSelectUp
                     \/ UpdateSelectDown]_vars

(***************************************************************************)
(* The pipeline over one data directory holding one icon file and one       *)
(* desktop entry that names it.                                             *)
(***************************************************************************)

InitPair ==
    /\ Spawned
    /\ NoLauncher
    /\ paths = [s \in SearchPathsTasks |-> { <<"g">> }]

SpecPair == InitPair /\ [][NextCrawl]_vars

(***************************************************************************)
(* The pipeline over one data directory holding a desktop entry whose Exec  *)
(* key has an empty value.                                                  *)
(***************************************************************************)

InitEmptyExec ==
    /\ Spawned
    /\ NoLauncher
    /\ paths = [s \in SearchPathsTasks |-> { <<"e">> }]

SpecEmptyExec == InitEmptyExec /\ [][NextCrawl]_vars

(***************************************************************************)
(* The daemon: two search_apps requests, served on a multi-threaded         *)
(* runtime (main.rs:33, 56-58).  The applications directory of the home is  *)
(* the one search path that exists: a directory with a valid desktop        *)
(* entry, or one with an entry without Exec and a valid entry.  The tasks   *)
(* run whenever they can.                                                   *)
(***************************************************************************)

\* daemon/fs.rs:66-106, main.rs:178-189: the index tasks of the job of
\* request r: one per path of a search_paths call, which joins them and
\* returns Ok (the search_paths call of the icons has no path)
JobTasks(r) == IF r = "r1" THEN {"r1_apps"} ELSE {"r2_apps"}

\* main.rs:78-81: search_apps loads the flag and returns when it is set
DaemonLoad(r) ==
    /\ daemon.req[r] = "called"
    /\ daemon' = [daemon EXCEPT
                    !.req[r] = IF daemon.flag THEN "rejected" ELSE "store"]
    /\ UNCHANGED <<fs_node, file, directory, symlink, is_file, is_dir,
                   is_symlink, is_symlink_of, is_parent_of, icon, is_icon,
                   app, is_app, has_icon, live, view, ui, stop, pc, walk,
                   stack, entry, paths, resolved, hist>>

\* main.rs:83-203: it stores true, spawns the ingestion task and the two
\* search_paths tasks on the JoinSet `tasks`, spawns the detached task that
\* joins them, and returns
DaemonStore(r) ==
    /\ daemon.req[r] = "store"
    /\ daemon' = [daemon EXCEPT !.flag = TRUE,
                                !.req[r] = "spawned",
                                !.ingest[r].pc = "open"]
    /\ pc' = [t \in Tasks |-> IF t \in JobTasks(r) THEN "start" ELSE pc[t]]
    /\ UNCHANGED <<fs_node, file, directory, symlink, is_file, is_dir,
                   is_symlink, is_symlink_of, is_parent_of, icon, is_icon,
                   app, is_app, has_icon, live, view, ui, stop, walk,
                   stack, entry, paths, resolved, hist>>

\* main.rs:143-145: the ingestion task opens LiveSearchAppsQuery
DaemonIngestOpen(r) ==
    /\ daemon.ingest[r].pc = "open"
    /\ daemon' = [daemon EXCEPT !.ingest[r].pc = "wait",
                                !.ingest[r].open = TRUE]
    /\ UNCHANGED <<fs_node, file, directory, symlink, is_file, is_dir,
                   is_symlink, is_symlink_of, is_parent_of, icon, is_icon,
                   app, is_app, has_icon, live, view, ui, stop, pc, walk,
                   stack, entry, paths, resolved, hist>>

\* main.rs:147-171: the stream yields a Create notification (it does not
\* end): an Err of CreateAppEntryQuery::new is returned with `?` and ends
\* the task; the query is executed in one transaction with
\* app_entry_added and its result is dropped
DaemonIngestNext(r) ==
    /\ daemon.ingest[r].pc = "wait"
    /\ daemon.ingest[r].queue # << >>
    /\ LET path == Head(daemon.ingest[r].queue)
           q == CreateAppEntryQuery_new(path)
           row == AppRow(q, r)
       IN  /\ hist' = [hist EXCEPT
                          !.parsed[path] = @ + 1,
                          !.parsed_ok = IF q.ok THEN @ \cup {path} ELSE @]
           /\ daemon' = [daemon EXCEPT
                           !.ingest[r] =
                              IF q.ok THEN [@ EXCEPT !.queue = Tail(@)]
                              ELSE [pc |-> "done", open |-> FALSE,
                                    queue |-> << >>]]
           /\ IF ~q.ok \/ AppRejected(app, q)
              THEN UNCHANGED <<app, is_app, has_icon, view>>
              ELSE /\ app' = app \cup {row}
                   /\ \E e \in app_entry_added(icon, row) :
                         /\ has_icon' = has_icon \cup e
                         /\ \E n \in AppCreated(row, e) :
                               view' = [view EXCEPT
                                          !.apps_q = n,
                                          !.upd_q = IconUpdates({row}, e)]
                   /\ \E e \in IsAppEdges(q, row.id) :
                         is_app' = is_app \cup e
    /\ UNCHANGED <<fs_node, file, directory, symlink, is_file, is_dir,
                   is_symlink, is_symlink_of, is_parent_of, icon, is_icon,
                   live, ui, stop, pc, walk, stack, entry, paths, resolved>>

\* main.rs:191-200: the detached task: join_all returns when the three
\* tasks of the job have ended; the flag is stored false
DaemonJoin(r) ==
    /\ daemon.req[r] = "spawned"
    /\ daemon.ingest[r].pc = "done"
    /\ \A t \in JobTasks(r) : pc[t] = "done"
    /\ daemon' = [daemon EXCEPT !.flag = FALSE, !.req[r] = "joined"]
    /\ UNCHANGED <<fs_node, file, directory, symlink, is_file, is_dir,
                   is_symlink, is_symlink_of, is_parent_of, icon, is_icon,
                   app, is_app, has_icon, live, view, ui, stop, pc, walk,
                   stack, entry, paths, resolved, hist>>

InitDaemon ==
    /\ EmptyDb
    /\ view = ViewOff
    /\ ui = UiOff
    /\ \E root \in { <<"s", "a">>, <<"w">> } :
          daemon = [DaemonOff EXCEPT
                      !.root = root,
                      !.req = [r \in {"r1", "r2"} |-> "called"]]
    /\ live = [open |-> FALSE, queue |-> << >>]
    /\ stop = [len |-> 0, sent |-> 0, closed |-> FALSE]
    /\ pc = [t \in Tasks |-> "off"]
    /\ walk = [t \in IndexTasks |-> << >>]
    /\ stack = [t \in IndexTasks |-> << >>]
    /\ entry = << >>
    /\ result = [t \in Tasks |-> Running]
    /\ joinset = [o \in JoinSets |-> << >>]
    /\ hist = NoHist
    /\ paths = [s \in SearchPathsTasks |-> {}]

NextDaemon ==
    \E r \in {"r1", "r2"} :
        \/ DaemonLoad(r)
        \/ DaemonStore(r)
        \/ DaemonIngestOpen(r)
        \/ DaemonIngestNext(r)
        \/ DaemonJoin(r)
        \/ \E t \in JobTasks(r) :
              \/ IndexStart(t)
              \/ IndexInit(t)
              \/ IndexEntry(t)
              \/ FindNode(t)
              \/ CreateNode(t)
              \/ CreateFile(t)
              \/ IndexAfter(t)

SpecDaemon == InitDaemon /\ [][NextDaemon]_vars /\ WF_vars(NextDaemon)

(***************************************************************************)
(* Properties of the indexer.                                               *)
(***************************************************************************)

\* The kind edges that leave the fs_node `id`.
KindEdges(id) == {e \in is_dir \cup is_file \cup is_symlink : e[1] = id}

\* C4: a call of FSNode::add_db(p) made after an earlier add_db(p) call has
\* completed returns the id that call returned, and creates no row.
C4_RepeatedAddDbReturnsSameId ==
    \A c \in hist.calls :
        c.prior # {} => c.prior = {c.id} /\ ~c.created

\* C5: there is at most one fs_node row per path, also when two index tasks
\* run add_db for the same path with their lookups and creates interleaved.
C5_AtMostOneNodePerPath ==
    \A n, m \in fs_node : n.path = m.path => n = m

\* C6: once add_db has returned Ok for a path whose fs_node it created, that
\* fs_node has exactly one kind edge, whatever the OS probes answered.
C6_ExactlyOneKindEdge ==
    \A c \in hist.calls :
        c.created => Cardinality(KindEdges(c.id)) = 1

(***************************************************************************)
(* Properties of the stop channel.                                          *)
(***************************************************************************)

\* C1: while the stop channel holds a pending message no step of a pipeline
\* task adds a row to fs_node, file, directory, symlink, app or icon.
C1_NoRowAfterStopPending ==
    [][stop.len > 0 =>
          /\ fs_node' \subseteq fs_node /\ file' \subseteq file
          /\ directory' \subseteq directory /\ symlink' \subseteq symlink
          /\ app' \subseteq app /\ icon' \subseteq icon]_vars

\* A task that has resolved; an aborted task resolves with nothing.
Resolved(t) == result[t] \notin {Running, "Aborted"}

\* C2: after the launcher has sent one stop message, every pipeline task
\* that was running when it was sent and has resolved since has resolved
\* with InterruptedByParent.
C2_RunningTasksInterrupted ==
    stop.sent = 1 =>
        \A t \in hist.at_stop :
            Resolved(t) => result[t] = "InterruptedByParent"

\* No task of the pipeline can take a step.
Quiescent == ~ENABLED PipelineNext

\* C3: once a stop message was sent while an index task was running and
\* the pipeline has nothing left to do, search has returned
\* InterruptedByParent.
C3_SearchReturnsInterrupted ==
    (hist.at_stop \cap PipelineIndexTasks # {} /\ Quiescent)
        => result[SearchTask] = "InterruptedByParent"

(***************************************************************************)
(* Properties of the ingestion and of the events.                           *)
(***************************************************************************)

\* search.rs:98: the ingestion task waits on the stream and no notification
\* is pending
IngestIdle ==
    pc[IngestTask] = "wait" /\ live.queue = << >> /\ entry = << >>

AppRowsOf(p) == {a \in app : a.path = p}

\* C7, as claimed: once the ingestion has handled all notifications, every
\* desktop file that was parsed successfully has exactly one app row.
C7_ExactlyOneAppRow ==
    IngestIdle =>
        \A p \in hist.parsed_ok : Cardinality(AppRowsOf(p)) = 1

\* An app row of another path holds the name parsed from p.
NameHeldByOther(p) ==
    \E a \in app :
        a.name = CreateAppEntryQuery_new(p).name /\ a.path # p

\* C7, amended: once the ingestion has handled all notifications, every
\* desktop file that was parsed successfully has at most one app row, and
\* it has none exactly when an app row of another path holds its name.
C7_OneAppRowUnlessNameTaken ==
    IngestIdle =>
        \A p \in hist.parsed_ok :
            /\ Cardinality(AppRowsOf(p)) <= 1
            /\ (AppRowsOf(p) = {}) <=> NameHeldByOther(p)

\* Two files of the same name were parsed and handled: the first has its
\* row and the second has none.
C7_Witness ==
    /\ IngestIdle
    /\ {<<"h", "b.desktop">>, <<"h", "e.desktop">>} \subseteq hist.parsed_ok
    /\ AppRowsOf(<<"h", "b.desktop">>) # {}
    /\ AppRowsOf(<<"h", "e.desktop">>) = {}

\* C8: in one run CreateAppEntryQuery::new is called at most once for each
\* desktop path.
C8_ParsedAtMostOnce ==
    \A p \in DesktopFiles : hist.parsed[p] <= 1

\* Both crawls are over and the ingestion has handled every notification.
CrawlOver ==
    /\ \A s \in SearchPathsTasks : pc[s] = "done"
    /\ IngestIdle

\* C9: when the crawl is over and every notification is handled, every app
\* row has a has_icon edge to every icon row named by its icon_name.
C9_EveryMatchingPairRelated ==
    CrawlOver =>
        \A a \in app : \A i \in icon :
            a.icon_name = i.name => <<a.id, i.id>> \in has_icon

\* The has_icon edges of the rows when every icon row is inserted before
\* the first app row: what app_entry_added writes for each app.
IconsFirstEdges ==
    UNION { CHOOSE e \in app_entry_added(icon, a) : TRUE : a \in app }

\* C10: when the crawl is over and every notification is handled, the
\* has_icon edges are those of the order that inserts the icons first,
\* in whatever order the rows were inserted.
C10_SameEdgesInEveryOrder ==
    CrawlOver => has_icon = IconsFirstEdges

\* C11: one app and one icon file of the same normalized name: once both
\* rows are inserted there is one app row, one icon row and one has_icon
\* edge, from that app to that icon, in whichever order the two rows were
\* inserted.
C11_OneAppOneIconOneEdge ==
    (app # {} /\ icon # {}) =>
        /\ Cardinality(app) = 1
        /\ Cardinality(icon) = 1
        /\ has_icon = {<<a.id, i.id>> : a \in app, i \in icon}

\* The crawl of the pair is over with the desktop entry and the icon in.
C11_Witness ==
    /\ CrawlOver
    /\ \E a \in app : a.path = <<"g", "q.desktop">> /\ a.icon_name = "n"
    /\ \E i \in icon : i.path = <<"g", "n-symbolic.png">> /\ i.name = "n"
    /\ Cardinality(has_icon) = 1

\* C12: when no stop message is sent and the pipeline has nothing left to
\* do, search has returned Ok.
C12_SearchReturnsOk ==
    (stop.sent = 0 /\ Quiescent) => result[SearchTask] = "Ok"

\* C13: a desktop file that fails to parse gets no app row and does not
\* end the ingestion task.
C13_ParseFailureSkipped ==
    \A p \in DesktopFiles :
        (hist.parsed[p] > 0 /\ ~CreateAppEntryQuery_new(p).ok) =>
            /\ AppRowsOf(p) = {}
            /\ pc[IngestTask] # "done"

\* The positions at which a task probes the stop channel with the arm of
\* check_stop! that returns an error.
ProbePcs == {"start", "init", "after", "probe", "probe96", "probe99"}

\* C16: once the stop channel is closed with no message sent, the next
\* stop probe of a pipeline task resolves it with LostConnectionToParent.
C16_ClosedChannelEndsTasks ==
    [][\A t \in PipelineTasks :
          (stop.closed /\ stop.sent = 0 /\ pc[t] \in ProbePcs
              /\ pc'[t] # pc[t])
          => result'[t] = "LostConnectionToParent"]_vars

\* C17: after the per-entry probe of an index task has found a stop
\* message, the task passes no further entry to FSNode::add_db.
C17_WalkEndsAtStop ==
    [][\A t \in PipelineIndexTasks :
          t \in hist.opt_recv => ~(pc[t] = "entry" /\ pc'[t] = "add_db")]_vars

\* C18: the launcher sends at most one message on the stop channel.
C18_AtMostOneStop == stop.sent <= 1

\* The entries of the walk of t that the walker could read and pre_filter
\* lets through.
Passing(t) ==
    {p \in {WalkDir(IndexArgs(t).root)[k] :
                k \in DOMAIN WalkDir(IndexArgs(t).root)} :
        p \notin WalkErrors /\ pre_filter(IndexArgs(t).exts, p) = None}

\* C14: without a stop message, an index task that has ended has returned
\* Ok and has passed every readable entry that pre_filter lets through to
\* FSNode::add_db, whatever entry could not be read and whichever add_db
\* call failed.
C14_EntryFailuresSkipped ==
    \A t \in PipelineIndexTasks :
        pc[t] = "done" =>
            /\ result[t] = "Ok"
            /\ \A p \in Passing(t) : <<t, p>> \in hist.visited

\* An index task has ended whose walk held an unreadable entry and whose
\* add_db call failed for one path, with a later path passed to add_db.
C14_Witness ==
    /\ pc["icons_va"] = "done"
    /\ Head(WalkDir(<<"v", "a">>)) \in WalkErrors
    /\ <<"icons_va", <<"v", "a", "p.png">>>> \in hist.failed
    /\ <<"icons_va", <<"v", "a", "r.png">>>> \in hist.visited

\* C15: when the ingestion task executes CreateAppEntryQuery for an entry
\* whose desktop_entry_path or name is already held by an app row, the step
\* adds no app row, no is_app edge and no has_icon edge, changes no row, and
\* leaves the task running and waiting for the next notification.
C15_DuplicateInsertFailsLocally ==
    [][(/\ pc[IngestTask] = "handle"
        /\ pc'[IngestTask] # "handle"
        /\ CreateAppEntryQuery_new(entry[1]).ok
        /\ \E a \in app :
              \/ a.path = entry[1]
              \/ a.name = CreateAppEntryQuery_new(entry[1]).name)
       => /\ app' = app
          /\ is_app' = is_app
          /\ has_icon' = has_icon
          /\ icon' = icon
          /\ pc'[IngestTask] = "wait"
          /\ result'[IngestTask] = Running]_vars

\* The entry of e.desktop, whose name Bar is held by another row, was parsed
\* and handled: it has no row and the task waits for the next notification.
C15_Witness ==
    /\ pc[IngestTask] = "wait"
    /\ result[IngestTask] = Running
    /\ hist.parsed[<<"h", "e.desktop">>] = 1
    /\ \E a \in app : a.name = "Bar" /\ a.path # <<"h", "e.desktop">>
    /\ \A a \in app : a.path # <<"h", "e.desktop">>

\* C19: when the icon crawl has completed, every regular file under an icon
\* root whose extension, compared without regard to case, is a recognized
\* image extension has exactly one icon row of its path.
C19_OneIconPerImageFile ==
    LET Lower(x) == IF x = "PNG" THEN "png" ELSE x
        Under(p, r) == Len(p) > Len(r) /\ SubSeq(p, 1, Len(r)) = r
    IN  (pc["sp_icons"] = "done" /\ result["sp_icons"] = "Ok") =>
            \A p \in RegularFiles :
                (/\ \E r \in paths["sp_icons"] : Under(p, r)
                 /\ Lower(Extension(p)) \in ImageExts)
                => Cardinality({i \in icon : i.path = p}) = 1

\* C20: when the crawls are over and every notification is handled, every
\* result of GetAppWithIconsQuery holds every app row exactly once, in
\* ascending name order, and the icon of an app is set whenever an icon row
\* of the app's icon_name exists.
C20_SnapshotComplete ==
    CrawlOver =>
        \A r \in GetAppWithIconsQuery :
            /\ \A a \in app : Cardinality({k \in DOMAIN r : r[k].app = a}) = 1
            /\ \A j, k \in DOMAIN r :
                  j < k => NameRank(r[j].app.name) < NameRank(r[k].app.name)
            /\ \A k \in DOMAIN r :
                  (\E i \in icon : i.name = r[k].app.icon_name)
                  => r[k].icon # NoId

\* C23: in every reachable state, also after a query failed, every file row
\* is the target of an is_file edge, every directory row of an is_dir edge,
\* and every symlink row has its is_symlink edge and its is_symlink_of edge.
C23_NoPartialRow ==
    /\ \A f \in file : \E e \in is_file : e[2] = f.id
    /\ \A d \in directory : \E e \in is_dir : e[2] = d
    /\ \A l \in symlink :
          /\ \E e \in is_symlink : e[2] = l
          /\ \E e \in is_symlink_of : e[1] = l

\* A CreateFileQuery has failed, and rows of the three kinds exist.
C23_Witness ==
    /\ \E t \in {"idx_m", "idx_n"} :
          <<t, <<"m", "64x32", "j.png">>>> \in hist.failed
    /\ file # {}
    /\ directory # {}
    /\ symlink # {}

\* C24: no step of an index call made with parents = false creates an
\* is_parent_of edge, also when it indexes a symlink and the symlink's
\* target.
C24_NoParentEdgeWithoutParents ==
    [][\A t \in IndexTasks :
          (~IndexArgs(t).parents /\ (stack'[t] # stack[t] \/ pc'[t] # pc[t]))
          => is_parent_of' = is_parent_of]_vars

\* The index call over /y, made with parents = false, has ended after it
\* indexed a symlink and its target, and no is_parent_of edge touches a node
\* it created.
C24_Witness ==
    /\ pc["idx_y"] = "done"
    /\ \E e \in is_symlink_of : e[1] = <<<<"y", "m.desktop">>, "idx_y">>
    /\ \E n \in fs_node : n.id[2] = "idx_y" /\ n.path = <<"t", "f.desktop">>
    /\ \A e \in is_parent_of : e[1][2] # "idx_y" /\ e[2][2] # "idx_y"

\* The components of a path that have the form WxH, W and H numbers.
DimComponents(path) == SelectSeq(path, LAMBDA c : SplitX(c) # << >>)

\* C25: the icon row of a file whose path has a component WxH has width W
\* and height H of such a component, and the icon row of a path without
\* such a component has no dims.
C25_DimsAreWidthAndHeight ==
    \A i \in icon :
        IF DimComponents(i.path) = << >>
        THEN i.dims = << >>
        ELSE \E k \in DOMAIN DimComponents(i.path) :
                i.dims = SplitX(DimComponents(i.path)[k])

\* C28: when several components of an icon file's path have the form WxH,
\* the dims of the icon row are those of the last one, the nearest to the
\* file.
C28_DimsFromNearestComponent ==
    \A i \in icon :
        Len(DimComponents(i.path)) > 1 =>
            i.dims = SplitX(DimComponents(i.path)[Len(DimComponents(i.path))])

\* C26: in every reachable state every is_dir, is_file and is_symlink edge
\* starts at an fs_node row that exists, and every is_symlink_of edge ends
\* at an fs_node row that exists.
C26_EdgesJoinExistingNodes ==
    /\ \A e \in is_dir \cup is_file \cup is_symlink :
          \E n \in fs_node : n.id = e[1]
    /\ \A e \in is_symlink_of : \E n \in fs_node : n.id = e[2]

\* A directory, a file and a symlink with its target have been written.
C26_Witness ==
    /\ is_dir # {}
    /\ is_file # {}
    /\ \E e \in is_symlink_of :
          \E n \in fs_node : n.id = e[2] /\ n.path = <<"t", "f.desktop">>

\* C27: once add_db, called with parents = true, has created the fs_node of
\* a path and returned Ok, the parent of the path has an fs_node and exactly
\* one is_parent_of edge enters the created node, from a node of the parent;
\* the node of a path without a parent has no entering is_parent_of edge.
C27_OneParentEdge ==
    \A c \in hist.calls :
        (c.created /\ c.parents) =>
            LET into == {e \in is_parent_of : e[2] = c.id}
            IN  IF HasParent(c.path)
                THEN /\ \E n \in fs_node : n.path = Parent(c.path)
                     /\ Cardinality(into) = 1
                     /\ \A e \in into :
                           \E n \in fs_node :
                              n.id = e[1] /\ n.path = Parent(c.path)
                ELSE into = {}

\* add_db with parents = true has created and returned the node of a file
\* three directories deep and the node of the root, which has no parent.
C27_Witness ==
    /\ \E c \in hist.calls :
          c.created /\ c.parents /\ c.path = <<"m", "64x32", "48x48", "k.png">>
    /\ \E c \in hist.calls : c.created /\ c.parents /\ c.path = << >>

\* C29: the ext of every file row is absent or in lower case, also for a
\* file whose name has an upper-case extension.
C29_ExtLowercase ==
    LET Lower(x) == IF x = "PNG" THEN "png" ELSE x
    IN  \A f \in file : f.ext = None \/ f.ext = Lower(f.ext)

\* C30: the index call over the directory whose symlinks form a cycle (a to
\* b, b to a) and link to themselves (o to o) ends, its add_db calls never
\* nest up to the cap, and from then on every path of the cycle has exactly
\* one fs_node row.
C30_CycleTerminates ==
    /\ [](Len(stack["idx_c"]) < MaxDepth)
    /\ <>[](/\ pc["idx_c"] = "done"
            /\ \A p \in { <<"c", "a.desktop">>, <<"c", "b.desktop">>,
                         <<"c", "o.desktop">> } :
                  Cardinality({n \in fs_node : n.path = p}) = 1)

\* The call over the cycle has ended: a links to b, b to a and o to itself.
C30_Witness ==
    /\ pc["idx_c"] = "done"
    /\ \A l \in { <<"c", "a.desktop">>, <<"c", "b.desktop">>,
                 <<"c", "o.desktop">> } :
          \E e \in is_symlink_of :
             /\ e[1] = <<l, "idx_c">>
             /\ e[2] = <<LinkTarget[l], "idx_c">>

\* C21: when an icon file is indexed while the subscription's live queries
\* are open, every app row of that icon_name that has no has_icon edge yet
\* gets a notification carrying the icon on the stream; and when update
\* handles a notification that carries an icon, the entry of the app in the
\* list of the launcher has that icon.
C21_IconUpdateDelivered ==
    [][/\ view.upd_open =>
             \A r \in icon' \ icon : \A a \in app :
                (a.icon_name = r.name /\ ~\E e \in has_icon : e[1] = a.id)
                => \E k \in DOMAIN view'.upd_q :
                      /\ view'.upd_q[k].id = a.id
                      /\ view'.upd_q[k].icon = r.id
       /\ (/\ ui.msgs # << >>
           /\ ui'.msgs = Tail(ui.msgs)
           /\ Head(ui.msgs).kind = "AddApp"
           /\ Head(ui.msgs).icon # NoId)
          => \E k \in DOMAIN ui'.apps :
                /\ ui'.apps[k].id = Head(ui.msgs).id
                /\ ui'.apps[k].icon = Head(ui.msgs).icon]_vars

\* C22: when the merged stream yields an error, the subscription does not
\* return and sends no Msg::Exit: it opens the stream again or goes on with
\* the next notification.
C22_StreamReopened ==
    [][(/\ view.pc = "next"
        /\ view.apps_q # << >>
        /\ Head(view.apps_q).kind = "Err"
        /\ view'.apps_q = Tail(view.apps_q))
       => /\ view'.pc \in {"open_apps", "open_updates", "next"}
          /\ \A k \in DOMAIN ui'.msgs : ui'.msgs[k].kind # "Exit"]_vars

\* C39: every app row has a non-empty exec list (RunApp takes exec[0] as the
\* command to run).
C39_ExecNonEmpty ==
    \A a \in app : a.exec # << >>

\* C35: once update has handled the snapshot (Msg::InitedApps), every app it
\* has received in a Msg::AddApp is in the list of the launcher, whichever
\* of them it handled first.
C35_AddedAppsStay ==
    ui.init = "yes" =>
        \A id \in ui.added : \E k \in DOMAIN ui.apps : ui.apps[k].id = id

\* C36: the list of the launcher never holds two entries of one app id; a
\* Msg::AddApp of an id in the list replaces that entry where it is and
\* changes nothing else, and a Msg::AddApp of a new id adds one entry, keeps
\* the others and leaves the list in ascending order of the names.
C36_NoDuplicateIds ==
    /\ [](\A j, k \in DOMAIN ui.apps :
             ui.apps[j].id = ui.apps[k].id => j = k)
    /\ [][(/\ ui.msgs # << >>
           /\ ui'.msgs = Tail(ui.msgs)
           /\ Head(ui.msgs).kind = "AddApp")
          => LET x == Head(ui.msgs)
                 same == {k \in DOMAIN ui.apps : ui.apps[k].id = x.id}
             IN  IF same # {}
                 THEN /\ Len(ui'.apps) = Len(ui.apps)
                      /\ \A k \in DOMAIN ui.apps :
                            IF k \in same
                            THEN /\ ui'.apps[k].id = x.id
                                 /\ ui'.apps[k].icon = x.icon
                            ELSE ui'.apps[k] = ui.apps[k]
                 ELSE /\ Len(ui'.apps) = Len(ui.apps) + 1
                      /\ Cardinality({k \in DOMAIN ui'.apps :
                                        ui'.apps[k].id = x.id}) = 1
                      /\ \A k \in DOMAIN ui.apps :
                            \E j \in DOMAIN ui'.apps :
                               ui'.apps[j] = ui.apps[k]
                      /\ \A j, k \in DOMAIN ui'.apps :
                            j < k => NameRank(ui'.apps[j].name)
                                     <= NameRank(ui'.apps[k].name)]_vars

C36_Witness ==
    /\ ui.init = "yes"
    /\ Cardinality(ui.added) = 2
    /\ Len(ui.apps) = 2
    /\ ui.apps[1].name = "Bar"
    /\ ui.apps[2].name = "Baz"

\* C37: the selected index is an index of the list shown (apps while the
\* search text is empty, filtered otherwise), 0 when that list is empty; and
\* a step that changes nothing but the selection moves it to the next or to
\* the previous entry, from the last entry round to 0 and from 0 round to
\* the last.
C37_SelectedIsValid ==
    /\ [](LET shown == IF ui.search = "" THEN ui.apps ELSE ui.filtered
          IN  ~ui.exited =>
                 IF shown = << >> THEN ui.selected = 0
                 ELSE ui.selected \in 0..(Len(shown) - 1))
    /\ [][LET shown == IF ui.search = "" THEN ui.apps ELSE ui.filtered
          IN  (/\ ui'.selected # ui.selected
               /\ ui' = [ui EXCEPT !.selected = ui'.selected]
               /\ ui.selected < Len(shown))
              => \/ ui'.selected = (ui.selected + 1) % Len(shown)
                 \/ ui'.selected = (ui.selected - 1) % Len(shown)]_vars

\* C38: update never evaluates `0 - 1` for the clamp bound of
\* Msg::SearchInput: the list shown after a search text is set is never
\* empty when its length is decremented.
C38_NoUnderflow ==
    ui.sub = "none"

\* C32: a pipeline task that has found the stop channel non-empty and calls
\* recv leaves check_stop!: whenever a task waits in recv, it later returns
\* (or is ended with the JoinSet that holds it).
C32_RecvReturns ==
    \A t \in PipelineTasks :
        (pc[t] \in {"recv", "recv_opt"}) ~> (pc[t] \notin {"recv", "recv_opt"})

\* C31: when the later index call over /s/a has returned, every fs_node row
\* of /s/a/f.desktop, also one whose first add_db call was aborted before
\* it wrote the kind edge, has exactly one kind edge.
C31_LaterCallCompletesNode ==
    pc["idx_s"] = "done" =>
        \A n \in fs_node :
            n.path = <<"s", "a", "f.desktop">>
            => Cardinality(KindEdges(n.id)) = 1

\* C33: at most one search job of the daemon runs at a time: at most one
\* search_apps request is between its check of SEARCHING_FOR_APPS_ICONS
\* and the end of the job it spawned.
C33_OneSearchJob ==
    Cardinality({r \in {"r1", "r2"} :
                    daemon.req[r] \in {"store", "spawned"}}) <= 1

\* C34: when the index tasks of a job have all ended, the flag
\* SEARCHING_FOR_APPS_ICONS is false at some later moment.
C34_FlagIsReset ==
    \A r \in {"r1", "r2"} :
        (daemon.req[r] = "spawned" /\ \A t \in JobTasks(r) : pc[t] = "done")
        ~> ~daemon.flag

====
